---------------------------- MODULE Spec2Model ----------------------------
(***************************************************************************)
(* RockRunner dispatch: the delivery lifecycle API (dispatch.js), the      *)
(* notification handler (notify.js), the truck roster API (trucks.js and   *)
(* its two sibling versions), the capacity calculator (capacity.js) and    *)
(* the assignment committer, modelled as state machines over the MongoDB   *)
(* collections they read and write.                                        *)
(*                                                                         *)
(* Every handler performs one updateOne / updateMany / insertOne on the    *)
(* collection it owns; an action is one request, handled to its response.  *)
(* Where two requests run at the same time, inflight holds each request    *)
(* from its arrival to its response and an action is one store operation   *)
(* of its handler: the handlers yield only at their awaits.                *)
(*                                                                         *)
(* Abstractions, all of values that no handler reads back:                 *)
(*  - a timestamp (new Date()) is the position of the statusHistory entry  *)
(*    that the same request pushes (both are "now" of that request);       *)
(*    0 stands for null.  Every handler that writes a transition timestamp *)
(*    pushes a history entry in the same update.  updatedAt / createdAt    *)
(*    are left out.                                                        *)
(*  - a statusHistory entry is its status field (updatedBy, notes and      *)
(*    timestamp are write-only strings).                                   *)
(*  - customerName, the address fields, truckNumber, driverName,           *)
(*    stopOrder, hour, deliveryPhoto and deliveryNotes are copied from the *)
(*    request and never read by a handler; they are left out.  The         *)
(*    requests of the model carry no source and no driverId, so a delivery *)
(*    holds the defaults 'Yard Sale' and null.                             *)
(*    customerPhone and customerEmail are kept: '' means none was given.   *)
(*  - an SMS / email send is its boolean outcome (result?.success||false). *)
(*  - a tonnage (quantity, capacity, stock) is a whole number of           *)
(*    hundredths of a ton; floating-point error below that is left out.    *)
(*  - response is the status code of the last response and body its body;  *)
(*    the bodies of the list, finalize, delivered-notification, capacity   *)
(*    and planning responses are modelled in full, every other body as     *)
(*    OtherBody.                                                           *)
(***************************************************************************)
EXTENDS Integers, Sequences, FiniteSets, TLC

VARIABLES deliveries, inventory, trucks, response, body, inflight

vars == <<deliveries, inventory, trucks, response, body, inflight>>

---------------------------------------------------------------------------
(* Bounds of the model *)

MaxDeliveries == 2
MaxEntries == 3
InitStock == 10
MaxTrucks == 2

(* Request values *)

Null == "null"
Absent == "absent"
NullTime == 0

(* The requests that may be in flight at the same time, and the position of
   one that has not arrived *)
Requests == {"first", "second"}
Idle == [pc |-> "idle"]

(* A response body other than the ones modelled in full: {success: true, ...}
   or {error: ...} *)
OtherBody == [kind |-> "other"]

Products == {"gravel"}
Quantities == {2}
Dates == {"2026-02-18", "2026-02-19"}
TimeWindows == {"8-10", "10-12"}
TruckIds == {"truckA", "truckB"}

(* An optional request field: {} when the body leaves it out (undefined),
   {v} when it carries v *)
None == {}
Some(v) == {v}
Get(field) == CHOOSE v \in field : TRUE
Optional(S) == {None} \cup {Some(v) : v \in S}

(* body.customerPhone || '' and body.customerEmail || '' *)
Phone == "9365550100"
Email == "pat@example.com"
NoContact == ""

Statuses == {"UNASSIGNED", "SCHEDULED", "EN_ROUTE", "DELIVERED", "CANCELLED"}
Terminal == {"DELIVERED", "CANCELLED"}

DeliveryIds == 1..MaxDeliveries

Last(s) == s[Len(s)]

(* The statusHistory entries written so far, over the whole collection: the
   model stops accepting requests that would write more than MaxEntries *)
RECURSIVE EntriesUpTo(_, _)
EntriesUpTo(ds, n) ==
    IF n = 0 THEN 0 ELSE Len(ds[n].statusHistory) + EntriesUpTo(ds, n - 1)

HistoryRoom(n) == EntriesUpTo(deliveries, Len(deliveries)) + n <= MaxEntries

---------------------------------------------------------------------------
(* dispatch.js POST: the document insertOne stores *)

(* quantity: parseFloat(body.quantity) || 0, in hundredths of a ton.  The
   request's quantity is what parseFloat makes of it: Some(n) for a number,
   None for NaN (a missing field, or text that starts with no number) *)
ParsedQuantity(quantity) ==
    IF quantity = None THEN 0 ELSE Get(quantity)

(* status: body.truckId ? 'SCHEDULED' : 'UNASSIGNED' *)
InitialStatusUnassigned(truckId) == "UNASSIGNED"

InitialStatus(truckId) ==
    IF truckId # Null THEN "SCHEDULED" ELSE "UNASSIGNED"

NewDelivery(productId, quantity, deliveryDate, timeWindow, truckId, customerPhone, customerEmail) ==
    [ source            |-> "Yard Sale",
      driverId          |-> Null,
      customerPhone     |-> customerPhone,
      customerEmail     |-> customerEmail,
      productId         |-> productId,
      quantity          |-> ParsedQuantity(quantity),
      deliveryDate      |-> deliveryDate,
      timeWindow        |-> timeWindow,
      truckId           |-> truckId,
      status            |-> InitialStatus(truckId),
      scheduledAt       |-> IF truckId # Null THEN 1 ELSE NullTime,
      enRouteAt         |-> NullTime,
      deliveredAt       |-> NullTime,
      cancelledAt       |-> NullTime,
      scheduleSmsSent   |-> FALSE,
      scheduleEmailSent |-> FALSE,
      enRouteSmsSent    |-> FALSE,
      enRouteEmailSent  |-> FALSE,
      deliveredSmsSent  |-> FALSE,
      deliveredEmailSent |-> FALSE,
      statusHistory     |-> << InitialStatus(truckId) >> ]

CreateDelivery(productId, quantity, deliveryDate, timeWindow, truckId, customerPhone, customerEmail) ==
    /\ Len(deliveries) < MaxDeliveries
    /\ HistoryRoom(1)
    /\ deliveries' = Append(deliveries,
                            NewDelivery(productId, quantity, deliveryDate, timeWindow,
                                        truckId, customerPhone, customerEmail))
    /\ response' = 201
    /\ body' = OtherBody
    /\ UNCHANGED <<inventory, trucks, inflight>>

---------------------------------------------------------------------------
(* dispatch.js PUT {action:"finalize"}: one updateMany over the date's
   SCHEDULED deliveries whose scheduleSmsSent is false *)

FinalizeMatchesAnyFlag(date) ==
    { i \in 1..Len(deliveries) :
        /\ deliveries[i].deliveryDate = date
        /\ deliveries[i].status = "SCHEDULED" }

FinalizeMatches(date) ==
    { i \in 1..Len(deliveries) :
        /\ deliveries[i].deliveryDate = date
        /\ deliveries[i].status = "SCHEDULED"
        /\ deliveries[i].scheduleSmsSent = FALSE }

Finalized(d) ==
    [d EXCEPT !.scheduleSmsSent = TRUE,
              !.statusHistory = Append(@, "FINALIZED")]

(* the find that follows the updateMany: the date's SCHEDULED deliveries
   that have a phone number or an e-mail address, as the set of their ids *)
ToNotify(ds, date) ==
    { i \in 1..Len(ds) :
        /\ ds[i].deliveryDate = date
        /\ ds[i].status = "SCHEDULED"
        /\ (ds[i].customerPhone # NoContact \/ ds[i].customerEmail # NoContact) }

FinalizeSchedule(date) ==
    /\ HistoryRoom(Cardinality(FinalizeMatches(date)))
    /\ deliveries' = [i \in 1..Len(deliveries) |->
                        IF i \in FinalizeMatches(date)
                        THEN Finalized(deliveries[i])
                        ELSE deliveries[i]]
    /\ response' = 200
    /\ body' = [kind |-> "finalize",
                finalized |-> Cardinality(FinalizeMatches(date)),
                toNotify |-> ToNotify(deliveries', date)]
    /\ UNCHANGED <<inventory, trucks, inflight>>

---------------------------------------------------------------------------
(* dispatch.js PUT, single delivery update: the $set / $push document built
   from the request body, applied to document d *)

SchedulesTruck(truckId, status) ==
    truckId # Absent /\ truckId # Null /\ status # "UNASSIGNED"

(* an update that would reschedule the delivery whatever it carries *)
HistoryStatusAlways(truckId, status) ==
    IF status # Absent THEN status ELSE "SCHEDULED"

HistoryStatus(truckId, status) ==
    IF status # Absent THEN status
    ELSE IF SchedulesTruck(truckId, status) THEN "SCHEDULED"
    ELSE Absent

UpdatedWithoutDeliveredAt(d, truckId, timeWindow, status, enRouteSmsSent) ==
    LET now == Len(d.statusHistory) + 1
    IN  [d EXCEPT
           !.truckId     = IF truckId # Absent THEN truckId ELSE @,
           !.driverId    = IF truckId # Absent THEN Null ELSE @,
           !.scheduledAt = IF SchedulesTruck(truckId, status) THEN now ELSE @,
           !.timeWindow  = IF timeWindow # Absent THEN timeWindow ELSE @,
           !.status      = IF HistoryStatus(truckId, status) # Absent
                           THEN HistoryStatus(truckId, status) ELSE @,
           !.enRouteAt   = IF status = "EN_ROUTE" THEN now ELSE @,
           !.cancelledAt = IF status = "CANCELLED" THEN now ELSE @,
           !.enRouteSmsSent = IF enRouteSmsSent THEN TRUE ELSE @,
           !.statusHistory = IF HistoryStatus(truckId, status) # Absent
                             THEN Append(@, HistoryStatus(truckId, status)) ELSE @]

Updated(d, truckId, timeWindow, status, enRouteSmsSent) ==
    LET now == Len(d.statusHistory) + 1
    IN  [d EXCEPT
           !.truckId     = IF truckId # Absent THEN truckId ELSE @,
           !.driverId    = IF truckId # Absent THEN Null ELSE @,
           !.scheduledAt = IF SchedulesTruck(truckId, status) THEN now ELSE @,
           !.timeWindow  = IF timeWindow # Absent THEN timeWindow ELSE @,
           !.status      = IF HistoryStatus(truckId, status) # Absent
                           THEN HistoryStatus(truckId, status) ELSE @,
           !.enRouteAt   = IF status = "EN_ROUTE" THEN now ELSE @,
           !.deliveredAt = IF status = "DELIVERED" THEN now ELSE @,
           !.cancelledAt = IF status = "CANCELLED" THEN now ELSE @,
           !.enRouteSmsSent = IF enRouteSmsSent THEN TRUE ELSE @,
           !.statusHistory = IF HistoryStatus(truckId, status) # Absent
                             THEN Append(@, HistoryStatus(truckId, status)) ELSE @]

(* dispatch.js PUT: "If DELIVERED, deplete inventory" *)
Depleted(inv, d) ==
    IF d.productId # Null
    THEN [inv EXCEPT ![d.productId] = @ - d.quantity]
    ELSE inv

UpdateDelivery(id, truckId, timeWindow, status, enRouteSmsSent) ==
    /\ id \in 1..Len(deliveries)
    /\ HistoryStatus(truckId, status) # Absent => HistoryRoom(1)
    /\ deliveries' = [deliveries EXCEPT
                        ![id] = Updated(@, truckId, timeWindow, status, enRouteSmsSent)]
    /\ inventory' = IF status = "DELIVERED"
                    THEN Depleted(inventory, deliveries'[id])
                    ELSE inventory
    /\ response' = 200
    /\ body' = OtherBody
    /\ UNCHANGED <<trucks, inflight>>

(* an update or a cancel whose id matches no document: updateOne modifies
   nothing, findOne returns null, the response is still 200 *)
UpdateMissing(id) ==
    /\ id \notin 1..Len(deliveries)
    /\ response' = 200
    /\ body' = OtherBody
    /\ UNCHANGED <<deliveries, inventory, trucks, inflight>>

---------------------------------------------------------------------------
(* dispatch.js DELETE: cancel, one unconditional updateOne *)

CancelledResettingHistory(d) ==
    [d EXCEPT !.status = "CANCELLED",
              !.cancelledAt = 1,
              !.statusHistory = <<"CANCELLED">>]

CancelledWithoutHistory(d) ==
    [d EXCEPT !.status = "CANCELLED",
              !.cancelledAt = Len(d.statusHistory) + 1]

Cancelled(d) ==
    [d EXCEPT !.status = "CANCELLED",
              !.cancelledAt = Len(d.statusHistory) + 1,
              !.statusHistory = Append(@, "CANCELLED")]

CancelDelivery(id) ==
    /\ id \in 1..Len(deliveries)
    /\ HistoryRoom(1)
    /\ deliveries' = [deliveries EXCEPT ![id] = Cancelled(@)]
    /\ response' = 200
    /\ body' = OtherBody
    /\ UNCHANGED <<inventory, trucks, inflight>>

---------------------------------------------------------------------------
(* notify.js POST {type:"en_route"} *)

EnRoutedWithoutHistory(d, smsOk, emailOk) ==
    [d EXCEPT !.status = "EN_ROUTE",
              !.enRouteAt = Len(d.statusHistory) + 1,
              !.enRouteSmsSent = smsOk,
              !.enRouteEmailSent = emailOk]

EnRoutedIfSent(d, smsOk, emailOk) ==
    IF smsOk \/ emailOk
    THEN [d EXCEPT !.status = "EN_ROUTE",
                   !.enRouteAt = Len(d.statusHistory) + 1,
                   !.enRouteSmsSent = smsOk,
                   !.enRouteEmailSent = emailOk,
                   !.statusHistory = Append(@, "EN_ROUTE")]
    ELSE d

EnRouted(d, smsOk, emailOk) ==
    [d EXCEPT !.status = "EN_ROUTE",
              !.enRouteAt = Len(d.statusHistory) + 1,
              !.enRouteSmsSent = smsOk,
              !.enRouteEmailSent = emailOk,
              !.statusHistory = Append(@, "EN_ROUTE")]

(* a send is made only to a phone number / an address on record; smsOk and
   emailOk are smsResult?.success || false and emailResult?.success || false *)
Sendable(d, smsOk, emailOk) ==
    /\ smsOk => d.customerPhone # NoContact
    /\ emailOk => d.customerEmail # NoContact

NotifyEnRoute(id, smsOk, emailOk) ==
    /\ id \in 1..Len(deliveries)
    /\ Sendable(deliveries[id], smsOk, emailOk)
    /\ HistoryRoom(1)
    /\ deliveries' = [deliveries EXCEPT ![id] = EnRouted(@, smsOk, emailOk)]
    /\ response' = 200
    /\ body' = OtherBody
    /\ UNCHANGED <<inventory, trucks, inflight>>

NotifyEnRouteMissing(id) ==
    /\ id \notin 1..Len(deliveries)
    /\ response' = 404
    /\ body' = OtherBody
    /\ UNCHANGED <<deliveries, inventory, trucks, inflight>>

---------------------------------------------------------------------------
(* notify.js POST {type:"schedule_confirmation", deliveries:[...]}: for each
   item of the batch, in order, the two sends and then one updateOne that
   stores their outcomes.  An item is [id, smsOk, emailOk]; an outcome is
   FALSE also when the item carries no phone / no email. *)

ScheduleNotified(d, smsOk, emailOk) ==
    [d EXCEPT !.scheduleSmsSent = smsOk,
              !.scheduleEmailSent = emailOk]

RECURSIVE ConfirmedItems(_, _)
ConfirmedItems(ds, items) ==
    IF items = << >> THEN ds
    ELSE LET item == Head(items)
         IN  ConfirmedItems(
                 IF item.id \in 1..Len(ds)
                 THEN [ds EXCEPT ![item.id] = ScheduleNotified(@, item.smsOk, item.emailOk)]
                 ELSE ds,
                 Tail(items))

NotifyScheduleConfirmation(items) ==
    /\ deliveries' = ConfirmedItems(deliveries, items)
    /\ response' = 200
    /\ body' = OtherBody
    /\ UNCHANGED <<inventory, trucks, inflight>>

---------------------------------------------------------------------------
(* notify.js POST {type:"delivered"}: the duplicate guard, the sends that
   are still owed, one updateOne that keeps a flag that is already set.
   (trustpilotInviteSent, which only gates the review-site invitation, is
   left out.) *)

(* the sends that would go out whatever the flags say *)
DeliveredSendsUnguarded(d, smsOk, emailOk) ==
    [smsSent |-> d.customerPhone # NoContact /\ smsOk,
     emailSent |-> d.customerEmail # NoContact /\ emailOk]

(* smsResult?.success || false and emailResult?.success || false: a channel
   is tried when its contact is on record and its flag is not set *)
DeliveredSends(d, smsOk, emailOk) ==
    [smsSent |-> d.customerPhone # NoContact /\ ~ d.deliveredSmsSent /\ smsOk,
     emailSent |-> d.customerEmail # NoContact /\ ~ d.deliveredEmailSent /\ emailOk]

DeliveredNotified(d, smsOk, emailOk) ==
    [d EXCEPT !.deliveredSmsSent = DeliveredSends(d, smsOk, emailOk).smsSent \/ @,
              !.deliveredEmailSent = DeliveredSends(d, smsOk, emailOk).emailSent \/ @]

NotifyDelivered(id, smsOk, emailOk) ==
    /\ id \in 1..Len(deliveries)
    /\ Sendable(deliveries[id], smsOk, emailOk)
    /\ IF deliveries[id].deliveredSmsSent /\ deliveries[id].deliveredEmailSent
       THEN /\ deliveries' = deliveries
            /\ body' = [kind |-> "delivered", alreadySent |-> TRUE,
                        smsSent |-> FALSE, emailSent |-> FALSE]
       ELSE /\ deliveries' = [deliveries EXCEPT ![id] = DeliveredNotified(@, smsOk, emailOk)]
            /\ body' = [kind |-> "delivered", alreadySent |-> FALSE,
                        smsSent |-> DeliveredSends(deliveries[id], smsOk, emailOk).smsSent,
                        emailSent |-> DeliveredSends(deliveries[id], smsOk, emailOk).emailSent]
    /\ response' = 200
    /\ UNCHANGED <<inventory, trucks, inflight>>

---------------------------------------------------------------------------
(* The delivery lifecycle: any request, in any order *)

Init ==
    /\ deliveries = << >>
    /\ inventory = [p \in Products |-> InitStock]
    /\ trucks = << >>
    /\ response = 0
    /\ body = OtherBody
    /\ inflight = [r \in Requests |-> Idle]

(* The PUT bodies of the lifecycle: every combination of one truck (or an
   unassignment, or no truckId) with a status (or none), and the driver
   app's EN_ROUTE update that also records the SMS as sent *)
UpdateBodies ==
    [truckId : {"truckA", Null, Absent}, timeWindow : {Absent},
     status : Statuses \cup {Absent}, enRouteSmsSent : {FALSE}]
    \cup [truckId : {Absent}, timeWindow : {Absent},
          status : {"EN_ROUTE"}, enRouteSmsSent : {TRUE}]

Next ==
    \/ \E p \in Products \cup {Null}, q \in Quantities, date \in Dates,
          t \in {"truckA", Null} :
          CreateDelivery(p, Some(q), date, Null, t, Phone, Email)
    \/ \E date \in Dates : FinalizeSchedule(date)
    \/ \E id \in DeliveryIds, b \in UpdateBodies :
          UpdateDelivery(id, b.truckId, b.timeWindow, b.status, b.enRouteSmsSent)
    \/ \E id \in DeliveryIds : UpdateMissing(id)
    \/ \E id \in DeliveryIds : CancelDelivery(id)
    \/ \E id \in DeliveryIds, smsOk \in BOOLEAN, emailOk \in BOOLEAN :
          NotifyEnRoute(id, smsOk, emailOk)
    \/ \E id \in DeliveryIds : NotifyEnRouteMissing(id)

Spec == Init /\ [][Next]_vars

---------------------------------------------------------------------------
(* Truck booking: the requests that book, move, release or cancel a
   (truck, date, time window) slot *)

BookingBodies ==
    [truckId : TruckIds \cup {Null, Absent}, timeWindow : TimeWindows \cup {Null, Absent},
     status : {Absent, "UNASSIGNED"}, enRouteSmsSent : {FALSE}]

NextBooking ==
    \/ \E q \in Quantities, date \in Dates,
          w \in TimeWindows \cup {Null}, t \in TruckIds \cup {Null} :
          CreateDelivery(Null, Some(q), date, w, t, Phone, Email)
    \/ \E id \in DeliveryIds, b \in BookingBodies :
          UpdateDelivery(id, b.truckId, b.timeWindow, b.status, b.enRouteSmsSent)
    \/ \E id \in DeliveryIds : CancelDelivery(id)

SpecBooking == Init /\ [][NextBooking]_vars

---------------------------------------------------------------------------
(* Customer notifications: the requests that read or write the six
   notification flags *)

ConfirmationItems ==
    [id : DeliveryIds, smsOk : BOOLEAN, emailOk : BOOLEAN]

ConfirmationBatches ==
    {<<item>> : item \in ConfirmationItems}
    \cup {<<a, b>> : a \in [id : {1}, smsOk : BOOLEAN, emailOk : {FALSE}],
                     b \in [id : {1, 2}, smsOk : BOOLEAN, emailOk : {FALSE}]}

NextNotify ==
    \/ \E date \in Dates : CreateDelivery(Null, Some(2), date, Null, "truckA", Phone, Email)
    \/ \E date \in Dates : FinalizeSchedule(date)
    \/ \E items \in ConfirmationBatches : NotifyScheduleConfirmation(items)
    \/ \E id \in DeliveryIds, smsOk \in BOOLEAN, emailOk \in BOOLEAN :
          NotifyEnRoute(id, smsOk, emailOk)
    \/ \E id \in DeliveryIds, smsOk \in BOOLEAN, emailOk \in BOOLEAN :
          NotifyDelivered(id, smsOk, emailOk)
    \/ \E id \in DeliveryIds :
          UpdateDelivery(id, Absent, Absent, "EN_ROUTE", TRUE)

SpecNotify == Init /\ [][NextNotify]_vars

---------------------------------------------------------------------------
(* Reaching the customer: orders placed with or without a phone number and
   an e-mail address, the finalize request that lists whom to notify, and
   the driver's en-route notification *)

NextContact ==
    \/ \E t \in {"truckA", Null},
          customerPhone \in {Phone, NoContact}, customerEmail \in {Email, NoContact} :
          CreateDelivery(Null, Some(2), "2026-02-18", Null, t, customerPhone, customerEmail)
    \/ \E date \in Dates : FinalizeSchedule(date)
    \/ \E id \in DeliveryIds, smsOk \in BOOLEAN, emailOk \in BOOLEAN :
          NotifyEnRoute(id, smsOk, emailOk)
    \/ \E id \in DeliveryIds : NotifyEnRouteMissing(id)

SpecContact == Init /\ [][NextContact]_vars

---------------------------------------------------------------------------
(* Rescheduling: the dispatcher moves a delivery to another time window, or
   clears it, at any point of the delivery's life *)

NextReschedule ==
    \/ \E t \in {"truckA", Null} :
          CreateDelivery(Null, Some(2), "2026-02-18", Null, t, Phone, Email)
    \/ \E id \in DeliveryIds, timeWindow \in TimeWindows \cup {Null, Absent} :
          UpdateDelivery(id, Absent, timeWindow, Absent, FALSE)
    \/ \E id \in DeliveryIds : UpdateDelivery(id, Absent, Absent, "DELIVERED", FALSE)
    \/ \E id \in DeliveryIds : CancelDelivery(id)

SpecReschedule == Init /\ [][NextReschedule]_vars

---------------------------------------------------------------------------
(* After the drop: the driver app marks the delivery DELIVERED and asks for
   the delivered notification, again and again, one request after another *)

NextDelivered ==
    \/ \E customerPhone \in {Phone, NoContact}, customerEmail \in {Email, NoContact} :
          CreateDelivery(Null, Some(2), "2026-02-18", Null, "truckA",
                         customerPhone, customerEmail)
    \/ \E id \in DeliveryIds : UpdateDelivery(id, Absent, Absent, "DELIVERED", FALSE)
    \/ \E id \in DeliveryIds, smsOk \in BOOLEAN, emailOk \in BOOLEAN :
          NotifyDelivered(id, smsOk, emailOk)

SpecDelivered == Init /\ [][NextDelivered]_vars

---------------------------------------------------------------------------
(* Any caller: the PUT handler takes body.status as it comes, so a caller
   may send a string that names no status of the lifecycle, and the POST
   handler takes any number as the quantity *)

SuppliedStatuses == Statuses \cup {"ON_HOLD", "delivered"}

(* what parseFloat makes of the quantity a caller sends: a positive number,
   zero, a negative number, or NaN *)
SuppliedQuantities == Optional({2, 0, -2})

NextCaller ==
    \/ \E date \in Dates, t \in {"truckA", Null}, quantity \in SuppliedQuantities :
          CreateDelivery(Null, quantity, date, Null, t, Phone, Email)
    \/ \E id \in DeliveryIds, status \in SuppliedStatuses :
          UpdateDelivery(id, Absent, Absent, status, FALSE)
    \/ \E id \in DeliveryIds : CancelDelivery(id)

SpecCaller == Init /\ [][NextCaller]_vars

---------------------------------------------------------------------------
(* Two dispatchers at once: dispatch.js PUT {id, truckId, timeWindow}, the
   setTruck request, handled by two invocations at the same time.  The
   handler builds its $set / $push document from the request body alone and
   reads nothing from the store before its one updateOne; the request is in
   flight from its arrival to that updateOne, and the updateOne of one
   document is atomic. *)

SetTruckReceived(r, id, truckId, timeWindow) ==
    /\ inflight[r] = Idle
    /\ id \in 1..Len(deliveries)
    /\ inflight' = [inflight EXCEPT ![r] =
                       [pc |-> "updateOne", id |-> id,
                        truckId |-> truckId, timeWindow |-> timeWindow]]
    /\ UNCHANGED <<deliveries, inventory, trucks, response, body>>

(* the updateOne guarded by a look at the slot, which the handler does not
   take *)
SetTruckUpdateOneIfFree(r) ==
    /\ inflight[r].pc = "updateOne"
    /\ LET q == inflight[r]
           taken == \E j \in 1..Len(deliveries) :
                       /\ j # q.id
                       /\ deliveries[j].status # "CANCELLED"
                       /\ deliveries[j].truckId = q.truckId
                       /\ deliveries[j].deliveryDate = deliveries[q.id].deliveryDate
                       /\ deliveries[j].timeWindow = q.timeWindow
       IN  /\ deliveries' = IF taken THEN deliveries
                            ELSE [deliveries EXCEPT
                                    ![q.id] = Updated(@, q.truckId, q.timeWindow, Absent, FALSE)]
           /\ response' = IF taken THEN 409 ELSE 200
    /\ inflight' = [inflight EXCEPT ![r].pc = "done"]
    /\ body' = OtherBody
    /\ UNCHANGED <<inventory, trucks>>

SetTruckUpdateOne(r) ==
    /\ inflight[r].pc = "updateOne"
    /\ LET q == inflight[r]
       IN  deliveries' = [deliveries EXCEPT
                            ![q.id] = Updated(@, q.truckId, q.timeWindow, Absent, FALSE)]
    /\ inflight' = [inflight EXCEPT ![r].pc = "done"]
    /\ response' = 200
    /\ body' = OtherBody
    /\ UNCHANGED <<inventory, trucks>>

NextRace ==
    \/ \E date \in Dates : CreateDelivery(Null, Some(2), date, Null, Null, Phone, Email)
    \/ \E r \in Requests, id \in DeliveryIds, t \in TruckIds, w \in TimeWindows :
          SetTruckReceived(r, id, t, w)
    \/ \E r \in Requests : SetTruckUpdateOne(r)

SpecRace == Init /\ [][NextRace]_vars

---------------------------------------------------------------------------
(* Two drivers' apps at once: notify.js POST {type:"delivered"} handled by
   two invocations at the same time.  The handler awaits three times: the
   findOne that reads the delivery, the sends, and the updateOne that stores
   the flags; it decides what to send, and what to store, from the document
   the findOne returned. *)

DeliveredFindOne(r, id) ==
    /\ inflight[r] = Idle
    /\ id \in 1..Len(deliveries)
    /\ IF deliveries[id].deliveredSmsSent /\ deliveries[id].deliveredEmailSent
       THEN /\ inflight' = [inflight EXCEPT ![r] =
                              [pc |-> "done", id |-> id, delivery |-> deliveries[id],
                               smsSent |-> FALSE, emailSent |-> FALSE]]
            /\ response' = 200
            /\ body' = [kind |-> "delivered", alreadySent |-> TRUE,
                        smsSent |-> FALSE, emailSent |-> FALSE]
       ELSE /\ inflight' = [inflight EXCEPT ![r] =
                              [pc |-> "send", id |-> id, delivery |-> deliveries[id],
                               smsSent |-> FALSE, emailSent |-> FALSE]]
            /\ UNCHANGED <<response, body>>
    /\ UNCHANGED <<deliveries, inventory, trucks>>

DeliveredSend(r, smsOk, emailOk) ==
    /\ inflight[r].pc = "send"
    /\ Sendable(inflight[r].delivery, smsOk, emailOk)
    /\ inflight' = [inflight EXCEPT
                       ![r].pc = "updateOne",
                       ![r].smsSent = DeliveredSends(inflight[r].delivery, smsOk, emailOk).smsSent,
                       ![r].emailSent = DeliveredSends(inflight[r].delivery, smsOk, emailOk).emailSent]
    /\ UNCHANGED <<deliveries, inventory, trucks, response, body>>

DeliveredUpdateOne(r) ==
    /\ inflight[r].pc = "updateOne"
    /\ LET q == inflight[r]
       IN  /\ deliveries' = [deliveries EXCEPT
                  ![q.id].deliveredSmsSent = q.smsSent \/ q.delivery.deliveredSmsSent,
                  ![q.id].deliveredEmailSent = q.emailSent \/ q.delivery.deliveredEmailSent]
           /\ body' = [kind |-> "delivered", alreadySent |-> FALSE,
                       smsSent |-> q.smsSent, emailSent |-> q.emailSent]
    /\ inflight' = [inflight EXCEPT ![r].pc = "done"]
    /\ response' = 200
    /\ UNCHANGED <<inventory, trucks>>

NextDeliveredRace ==
    \/ \E customerPhone \in {Phone, NoContact} :
          CreateDelivery(Null, Some(2), "2026-02-18", Null, "truckA", customerPhone, Email)
    \/ \E r \in Requests, id \in DeliveryIds : DeliveredFindOne(r, id)
    \/ \E r \in Requests, smsOk \in BOOLEAN, emailOk \in BOOLEAN :
          DeliveredSend(r, smsOk, emailOk)
    \/ \E r \in Requests : DeliveredUpdateOne(r)

SpecDeliveredRace == Init /\ [][NextDeliveredRace]_vars

---------------------------------------------------------------------------
(* The Assignment Committer, applyAssignments(date, assignments): each item
   names a delivery and proposes a truck and a time window.  Items are
   handled one by one, in order: the delivery is looked up; when it exists
   the assignment fields are set, the status becomes SCHEDULED unless it is
   terminal, and a history entry is appended; when it does not, the failure
   is recorded and the batch goes on. *)

MaxPlanEntries == 5

PlanRoom(n) == EntriesUpTo(deliveries, Len(deliveries)) + n <= MaxPlanEntries

Assigned(d, item) ==
    LET status == IF d.status \in Terminal THEN d.status ELSE "SCHEDULED"
    IN  [d EXCEPT !.truckId = item.truckId,
                  !.timeWindow = item.timeWindow,
                  !.status = status,
                  !.statusHistory = Append(@, status)]

NotFound(item) == [deliveryId |-> item.deliveryId, error |-> "NotFound"]

(* a committer that also refuses an item whose truck and time window a
   delivery of the board already holds *)
ApplyItemCheckingSlot(acc, item) ==
    IF /\ item.deliveryId \in 1..Len(acc.ds)
       /\ ~ \E j \in 1..Len(acc.ds) :
               /\ j # item.deliveryId
               /\ acc.ds[j].truckId = item.truckId
               /\ acc.ds[j].timeWindow = item.timeWindow
    THEN [acc EXCEPT !.ds[item.deliveryId] = Assigned(@, item),
                     !.appliedCount = @ + 1]
    ELSE [acc EXCEPT !.perItemErrors = Append(@, NotFound(item))]

ApplyItem(acc, item) ==
    IF item.deliveryId \in 1..Len(acc.ds)
    THEN [acc EXCEPT !.ds[item.deliveryId] = Assigned(@, item),
                     !.appliedCount = @ + 1]
    ELSE [acc EXCEPT !.perItemErrors = Append(@, NotFound(item))]

(* a committer that gives up at the first item that fails *)
RECURSIVE ApplyItemsUntilError(_, _)
ApplyItemsUntilError(acc, items) ==
    IF items = << >> THEN acc
    ELSE IF Head(items).deliveryId \notin 1..Len(acc.ds)
    THEN ApplyItem(acc, Head(items))
    ELSE ApplyItemsUntilError(ApplyItem(acc, Head(items)), Tail(items))

RECURSIVE ApplyItems(_, _)
ApplyItems(acc, items) ==
    IF items = << >> THEN acc
    ELSE ApplyItems(ApplyItem(acc, Head(items)), Tail(items))

Committed(ds, items) ==
    ApplyItems([ds |-> ds, appliedCount |-> 0, perItemErrors |-> << >>], items)

KnownItems(items) ==
    {k \in 1..Len(items) : items[k].deliveryId \in 1..Len(deliveries)}

ApplyAssignments(date, items) ==
    /\ PlanRoom(Cardinality(KnownItems(items)))
    /\ deliveries' = Committed(deliveries, items).ds
    /\ response' = 200
    /\ body' = [kind          |-> "applyAssignments",
                date          |-> date,
                appliedCount  |-> Committed(deliveries, items).appliedCount,
                totalCount    |-> Len(items),
                perItemErrors |-> Committed(deliveries, items).perItemErrors]
    /\ UNCHANGED <<inventory, trucks, inflight>>

(* Planning: orders come in, some are cancelled, plans are committed *)

(* the deliveries a plan names: the first two of the board and an id that no
   delivery has *)
PlannedIds == {1, 2, MaxDeliveries + 1}

AssignmentItems ==
    [deliveryId : PlannedIds, truckId : TruckIds, timeWindow : {"8-10"}]

ItemsOn(truckId) == {item \in AssignmentItems : item.truckId = truckId}

AssignmentBatches ==
    {<<a>> : a \in AssignmentItems}
    \cup {<<a, b>> : a, b \in AssignmentItems}
    \cup {<<a, b, c>> : a \in ItemsOn("truckA"), b \in ItemsOn("truckB"),
                        c \in ItemsOn("truckA")}

NextPlanner ==
    \/ CreateDelivery(Null, Some(2), "2026-02-18", Null, Null, Phone, Email)
    \/ \E id \in DeliveryIds : CancelDelivery(id)
    \/ \E items \in AssignmentBatches : ApplyAssignments("2026-02-18", items)

SpecPlanner == Init /\ [][NextPlanner]_vars

---------------------------------------------------------------------------
(* The truck roster.  A truck number is a sequence of characters, so that
   trim() and the case-insensitive match are computed, not assumed. *)

TruckNumbers == { <<"A">>, <<"a">>, <<" ", "A">>, <<"B">> }
(* capacities, in hundredths of a ton *)
Capacities == {2000, 2400}
DefaultCapacity == 2400

ToLowerChar(c) == IF c = "A" THEN "a" ELSE IF c = "B" THEN "b" ELSE c

ToLower(str) == [i \in 1..Len(str) |-> ToLowerChar(str[i])]

RECURSIVE TrimStart(_)
TrimStart(str) ==
    IF str # << >> /\ Head(str) = " " THEN TrimStart(Tail(str)) ELSE str

RECURSIVE TrimEnd(_)
TrimEnd(str) ==
    IF str # << >> /\ str[Len(str)] = " "
    THEN TrimEnd(SubSeq(str, 1, Len(str) - 1)) ELSE str

Trim(str) == TrimEnd(TrimStart(str))

(* { $regex: new RegExp(`^${truckNumber.trim()}$`, 'i') } on a stored number *)
RegexMatchesNoCase(stored, truckNumber) == ToLower(stored) = ToLower(Trim(truckNumber))

(* the _id of the n-th truck of the roster, as deliveries refer to it *)
TruckIdOf(n) ==
    IF n = 1 THEN "truckA" ELSE IF n = 2 THEN "truckB" ELSE "truckC"

NewTruck(truckNumber, capacity) ==
    [truckNumber |-> truckNumber, capacity |-> capacity, active |-> TRUE]

(* part_000 (trucks with defaultDriver), POST: exact match on any truck *)
RegisterTruckExact(truckNumber, capacity) ==
    /\ IF \E i \in 1..Len(trucks) : trucks[i].truckNumber = truckNumber
       THEN /\ response' = 409
            /\ UNCHANGED trucks
       ELSE /\ Len(trucks) < MaxTrucks
            /\ trucks' = Append(trucks,
                  NewTruck(truckNumber, IF capacity = None THEN DefaultCapacity ELSE Get(capacity)))
            /\ response' = 201
    /\ body' = OtherBody
    /\ UNCHANGED <<deliveries, inventory, inflight>>

(* part_000 (roster, case-insensitive), POST *)
RegisterTruckNoCase(truckNumber, capacity) ==
    /\ IF capacity = None
       THEN /\ response' = 400
            /\ UNCHANGED trucks
       ELSE IF \E i \in 1..Len(trucks) :
                  /\ RegexMatchesNoCase(trucks[i].truckNumber, truckNumber)
                  /\ trucks[i].active # FALSE
       THEN /\ response' = 400
            /\ UNCHANGED trucks
       ELSE /\ Len(trucks) < MaxTrucks
            /\ trucks' = Append(trucks, NewTruck(Trim(truckNumber), Get(capacity)))
            /\ response' = 201
    /\ body' = OtherBody
    /\ UNCHANGED <<deliveries, inventory, inflight>>

(* trucks.js, POST: exact match on the active trucks *)
RegisterTruckActive(truckNumber, capacity) ==
    /\ IF capacity = None
       THEN /\ response' = 400
            /\ UNCHANGED trucks
       ELSE IF \E i \in 1..Len(trucks) :
                  /\ trucks[i].truckNumber = truckNumber
                  /\ trucks[i].active = TRUE
       THEN /\ response' = 400
            /\ UNCHANGED trucks
       ELSE /\ Len(trucks) < MaxTrucks
            /\ trucks' = Append(trucks, NewTruck(truckNumber, Get(capacity)))
            /\ response' = 201
    /\ body' = OtherBody
    /\ UNCHANGED <<deliveries, inventory, inflight>>

(* PUT: the $set document, applied to truck t.  trucks.js and the
   defaultDriver version store truckNumber as sent *)
TruckUpdated(t, truckNumber, capacity, active) ==
    [t EXCEPT !.truckNumber = IF truckNumber # None THEN Get(truckNumber) ELSE @,
              !.capacity    = IF capacity # None THEN Get(capacity) ELSE @,
              !.active      = IF active # None THEN Get(active) ELSE @]

UpdateTruck(id, truckNumber, capacity, active) ==
    /\ trucks' = IF id \in 1..Len(trucks)
                 THEN [trucks EXCEPT ![id] = TruckUpdated(@, truckNumber, capacity, active)]
                 ELSE trucks
    /\ response' = 200
    /\ body' = OtherBody
    /\ UNCHANGED <<deliveries, inventory, inflight>>

(* part_000 (roster, case-insensitive), PUT: truckNumber.trim() *)
UpdateTruckTrim(id, truckNumber, capacity, active) ==
    UpdateTruck(id, IF truckNumber # None THEN Some(Trim(Get(truckNumber))) ELSE None,
                capacity, active)

(* a deactivation that would also take the truck off its deliveries, which
   no version does *)
DeactivateTruckCascading(id) ==
    /\ trucks' = IF id \in 1..Len(trucks)
                 THEN [trucks EXCEPT ![id].active = FALSE]
                 ELSE trucks
    /\ deliveries' = [i \in 1..Len(deliveries) |->
                        IF id \in 1..Len(trucks) /\ deliveries[i].truckId = TruckIdOf(id)
                        THEN [deliveries[i] EXCEPT !.truckId = Null,
                                                   !.status = "UNASSIGNED"]
                        ELSE deliveries[i]]
    /\ response' = 200
    /\ body' = OtherBody
    /\ UNCHANGED <<inventory, inflight>>

(* a DELETE that would flip the flag instead of clearing it *)
DeactivateTruckToggling(id) ==
    /\ trucks' = IF id \in 1..Len(trucks)
                 THEN [trucks EXCEPT ![id].active = ~ @]
                 ELSE trucks
    /\ response' = 200
    /\ body' = OtherBody
    /\ UNCHANGED <<deliveries, inventory, inflight>>

(* DELETE: soft deactivation, the same updateOne in the three versions *)
DeactivateTruck(id) ==
    /\ trucks' = IF id \in 1..Len(trucks)
                 THEN [trucks EXCEPT ![id].active = FALSE]
                 ELSE trucks
    /\ response' = 200
    /\ body' = OtherBody
    /\ UNCHANGED <<deliveries, inventory, inflight>>

TruckSlots == 1..MaxTrucks

NextFleet ==
    \/ \E n \in TruckNumbers, c \in Optional(Capacities) : RegisterTruckExact(n, c)
    \/ \E n \in TruckNumbers, c \in Optional(Capacities) : RegisterTruckNoCase(n, c)
    \/ \E n \in TruckNumbers, c \in Optional(Capacities) : RegisterTruckActive(n, c)
    \/ \E id \in TruckSlots, n \in Optional(TruckNumbers),
          c \in Optional(Capacities), a \in Optional(BOOLEAN) :
          UpdateTruck(id, n, c, a)
    \/ \E id \in TruckSlots, n \in Optional(TruckNumbers),
          c \in Optional(Capacities), a \in Optional(BOOLEAN) :
          UpdateTruckTrim(id, n, c, a)
    \/ \E id \in TruckSlots : DeactivateTruck(id)

SpecFleet == Init /\ [][NextFleet]_vars

---------------------------------------------------------------------------
(* The roster next to a board with deliveries on it: the three versions of
   the POST, the two of the PUT, and the DELETE, while deliveries are booked
   on the roster's trucks *)

FleetRequest ==
    \/ \E n \in {<<"A">>, <<"B">>} : RegisterTruckExact(n, Some(2400))
    \/ \E n \in {<<"A">>, <<"B">>} : RegisterTruckNoCase(n, Some(2400))
    \/ \E n \in {<<"A">>, <<"B">>} : RegisterTruckActive(n, Some(2400))
    \/ \E id \in TruckSlots : UpdateTruck(id, Some(<<"B">>), Some(2000), None)
    \/ \E id \in TruckSlots : UpdateTruckTrim(id, Some(<<" ", "A">>), None, Some(TRUE))
    \/ \E id \in TruckSlots : DeactivateTruck(id)

NextRoster ==
    \/ \E t \in TruckIds : CreateDelivery(Null, Some(2), "2026-02-18", Null, t, Phone, Email)
    \/ FleetRequest

SpecRoster == Init /\ [][NextRoster]_vars

---------------------------------------------------------------------------
(* Two dispatchers adding a truck at once: part_000 (roster,
   case-insensitive), POST handled by two invocations at the same time.  The
   handler awaits twice: the findOne that looks for an active truck of that
   number, and the insertOne. *)

RegisterFindOne(r, truckNumber, capacity) ==
    /\ inflight[r] = Idle
    /\ IF capacity = None
       THEN /\ inflight' = [inflight EXCEPT ![r] =
                              [pc |-> "done", truckNumber |-> truckNumber,
                               capacity |-> capacity, statusCode |-> 400]]
            /\ response' = 400
            /\ body' = OtherBody
       ELSE IF \E i \in 1..Len(trucks) :
                  /\ RegexMatchesNoCase(trucks[i].truckNumber, truckNumber)
                  /\ trucks[i].active # FALSE
       THEN /\ inflight' = [inflight EXCEPT ![r] =
                              [pc |-> "done", truckNumber |-> truckNumber,
                               capacity |-> capacity, statusCode |-> 400]]
            /\ response' = 400
            /\ body' = OtherBody
       ELSE /\ inflight' = [inflight EXCEPT ![r] =
                              [pc |-> "insertOne", truckNumber |-> truckNumber,
                               capacity |-> capacity, statusCode |-> 0]]
            /\ UNCHANGED <<response, body>>
    /\ UNCHANGED <<deliveries, inventory, trucks>>

RegisterInsertOne(r) ==
    /\ inflight[r].pc = "insertOne"
    /\ Len(trucks) < MaxTrucks
    /\ trucks' = Append(trucks,
          NewTruck(Trim(inflight[r].truckNumber), Get(inflight[r].capacity)))
    /\ inflight' = [inflight EXCEPT ![r].pc = "done", ![r].statusCode = 201]
    /\ response' = 201
    /\ body' = OtherBody
    /\ UNCHANGED <<deliveries, inventory>>

NextRegisterRace ==
    \/ \E r \in Requests, n \in TruckNumbers, c \in Optional(Capacities) :
          RegisterFindOne(r, n, c)
    \/ \E r \in Requests : RegisterInsertOne(r)

SpecRegisterRace == Init /\ [][NextRegisterRace]_vars

---------------------------------------------------------------------------
(* calculate-loads.js: the breakdown of an order into truck loads.  Tons
   are counted here in thousandths, one decimal place more than toFixed(2)
   keeps, so that the rounding is computed.  The quotient of line 18 is taken
   exactly. *)

MaxTons == 40
MaxCapacity == 25

(* a value whose third decimal is 5 rounds up or down with its binary
   representation; the inputs leave those values out *)
Thousandths(max) == {n \in 0..max : n % 10 # 5}

(* parseFloat(x.toFixed(2)), for x >= 0 *)
ToFixed2(x) == ((x + 5) \div 10) * 10

Min(a, b) == IF a <= b THEN a ELSE b

CeilDiv(a, b) == (a + b - 1) \div b

(* the loop of lines 21-25, from load i on *)
RECURSIVE LoadsFrom(_, _, _, _)
LoadsFrom(i, totalLoads, remaining, truckCapacity) ==
    IF i > totalLoads THEN << >>
    ELSE LET loadTons == ToFixed2(Min(remaining, truckCapacity))
         IN  <<[loadNumber |-> i, quantity |-> loadTons]>>
             \o LoadsFrom(i + 1, totalLoads, ToFixed2(remaining - loadTons), truckCapacity)

calculateLoads(totalTons, truckCapacity) ==
    LET totalLoads == CeilDiv(totalTons, truckCapacity)
    IN  [totalLoads |-> totalLoads,
         loads |-> LoadsFrom(1, totalLoads, ToFixed2(totalTons), truckCapacity)]

(* POST /calculate-loads {totalTons, truckCapacity}, no origin or
   destination: the request is kept in inflight, the answer in body *)
CalculateLoadsRequest(totalTons, truckCapacity) ==
    /\ inflight' = [inflight EXCEPT !["first"] =
                       [pc |-> "done", totalTons |-> totalTons,
                        truckCapacity |-> truckCapacity]]
    /\ IF totalTons = 0 \/ truckCapacity = 0
       THEN /\ response' = 400
            /\ body' = OtherBody
       ELSE /\ response' = 200
            /\ body' = calculateLoads(totalTons, truckCapacity)
    /\ UNCHANGED <<deliveries, inventory, trucks>>

NextLoads ==
    \E totalTons \in Thousandths(MaxTons), truckCapacity \in Thousandths(MaxCapacity) :
        CalculateLoadsRequest(totalTons, truckCapacity)

SpecLoads == Init /\ [][NextLoads]_vars

---------------------------------------------------------------------------
(* capacity.js GET /capacity?from=&to=.  A date string 'YYYY-MM-DD' is the
   triple <<year, month, day>> of its numbers; a Date is the number of its
   calendar day, counted from 1970-01-01 (the handler only uses Dates at
   noon local time).  Tons are counted in hundredths. *)

DELIVERIES_PER_TRUCK == 5
SAME_DAY_CUTOFF_HOUR == 12

DAY_NAMES ==
    <<"Sunday", "Monday", "Tuesday", "Wednesday", "Thursday", "Friday", "Saturday">>

Max(a, b) == IF a >= b THEN a ELSE b

(* new Date(str + 'T12:00:00') *)
ParseDate(str) ==
    LET y   == IF str[2] <= 2 THEN str[1] - 1 ELSE str[1]
        era == y \div 400
        yoe == y - era * 400
        mp  == IF str[2] > 2 THEN str[2] - 3 ELSE str[2] + 9
        doy == (153 * mp + 2) \div 5 + str[3] - 1
        doe == yoe * 365 + yoe \div 4 - yoe \div 100 + doy
    IN  era * 146097 + doe - 719468

(* d.getFullYear() + '-' + pad(d.getMonth() + 1) + '-' + pad(d.getDate()) *)
FormatDate(d) ==
    LET z   == d + 719468
        era == z \div 146097
        doe == z - era * 146097
        yoe == (doe - doe \div 1460 + doe \div 36524 - doe \div 146096) \div 365
        doy == doe - (365 * yoe + yoe \div 4 - yoe \div 100)
        mp  == (5 * doy + 2) \div 153
        m   == IF mp < 10 THEN mp + 3 ELSE mp - 9
    IN  << yoe + era * 400 + (IF m <= 2 THEN 1 ELSE 0),
           m,
           doy - (153 * mp + 2) \div 5 + 1 >>

(* d.getDay(): 1970-01-01 was a Thursday *)
GetDay(d) == (d + 4) % 7

(* the order of two date strings, as $gte / $lte compare them *)
StrLeq(a, b) ==
    \/ a[1] < b[1]
    \/ a[1] = b[1] /\ a[2] < b[2]
    \/ a[1] = b[1] /\ a[2] = b[2] /\ a[3] <= b[3]

(* Math.round(x * 10) / 10 *)
Round1(x) == ((x + 5) \div 10) * 10

(* every truck of the roster, deactivated or not *)
AllTrucks == 1..Len(trucks)

(* trucks.find({active: {$ne: false}}) *)
ActiveTrucks == {i \in 1..Len(trucks) : trucks[i].active # FALSE}

(* t.capacity || 24 *)
CapacityOf(t) == IF t.capacity = 0 THEN DefaultCapacity ELSE t.capacity

RECURSIVE SumOver(_, _, _)
SumOver(f, S, zero) ==
    IF S = {} THEN zero
    ELSE LET x == CHOOSE x \in S : TRUE
         IN  f[x] + SumOver(f, S \ {x}, zero)

TotalCapacityTons ==
    SumOver([i \in 1..Len(trucks) |-> CapacityOf(trucks[i])], ActiveTrucks, 0)

(* byDate[dateStr], of the deliveries the range query returns *)
DayDels(dateStr, from, to) ==
    {i \in 1..Len(deliveries) :
        /\ StrLeq(from, deliveries[i].deliveryDate)
        /\ StrLeq(deliveries[i].deliveryDate, to)
        /\ deliveries[i].status \notin {"CANCELLED"}
        /\ deliveries[i].deliveryDate = dateStr}

ScheduledTons(dayDels) ==
    SumOver([i \in 1..Len(deliveries) |-> deliveries[i].quantity], dayDels, 0)

TrucksUsed(dayDels) ==
    Cardinality({deliveries[i].truckId : i \in dayDels} \ {Null})

AvailableTonsUnclamped(totalCapacityTons, scheduledTons) ==
    totalCapacityTons - scheduledTons

AvailableTons(totalCapacityTons, scheduledTons) ==
    Max(0, totalCapacityTons - scheduledTons)

(* the remaining share handled as a percentage: compared with 30 and 10 *)
CapacityStatusPercent(availableTons, totalCapacityTons) ==
    IF totalCapacityTons > 0 /\ availableTons > 30 * totalCapacityTons THEN "available"
    ELSE IF totalCapacityTons > 0 /\ availableTons > 10 * totalCapacityTons THEN "limited"
    ELSE "full"

(* pctRemaining > 0.3, > 0.1, as comparisons of whole numbers *)
CapacityStatus(availableTons, totalCapacityTons) ==
    IF totalCapacityTons > 0 /\ 10 * availableTons > 3 * totalCapacityTons THEN "available"
    ELSE IF totalCapacityTons > 0 /\ 10 * availableTons > totalCapacityTons THEN "limited"
    ELSE "full"

(* a closed day that still reports the fleet *)
ClosedDayWithFleet(dateStr, dayName) ==
    [ date |-> dateStr, dayName |-> dayName,
      totalTrucks |-> Cardinality(ActiveTrucks), trucksUsed |-> 0,
      trucksAvailable |-> Cardinality(ActiveTrucks),
      totalCapacityTons |-> TotalCapacityTons, scheduledTons |-> 0,
      availableTons |-> TotalCapacityTons, deliveryCount |-> 0,
      maxDeliveries |-> Cardinality(ActiveTrucks) * DELIVERIES_PER_TRUCK,
      availableSlots |-> Cardinality(ActiveTrucks) * DELIVERIES_PER_TRUCK,
      status |-> "closed", sameDayAvailable |-> FALSE ]

(* if (isSunday) days.push({...}) *)
ClosedDay(dateStr, dayName) ==
    [ date |-> dateStr, dayName |-> dayName,
      totalTrucks |-> 0, trucksUsed |-> 0, trucksAvailable |-> 0,
      totalCapacityTons |-> 0, scheduledTons |-> 0, availableTons |-> 0,
      deliveryCount |-> 0, maxDeliveries |-> 0, availableSlots |-> 0,
      status |-> "closed", sameDayAvailable |-> FALSE ]

OpenDay(dateStr, dayName, from, to, todayStr, hour) ==
    LET totalTrucks    == Cardinality(ActiveTrucks)
        maxDeliveries  == totalTrucks * DELIVERIES_PER_TRUCK
        dayDels        == DayDels(dateStr, from, to)
        scheduledTons  == ScheduledTons(dayDels)
        deliveryCount  == Cardinality(dayDels)
        trucksUsed     == TrucksUsed(dayDels)
        availableTons  == AvailableTons(TotalCapacityTons, scheduledTons)
        availableSlots == Max(0, maxDeliveries - deliveryCount)
    IN  [ date |-> dateStr, dayName |-> dayName,
          totalTrucks |-> totalTrucks,
          trucksUsed |-> trucksUsed,
          trucksAvailable |-> Max(0, totalTrucks - trucksUsed),
          totalCapacityTons |-> TotalCapacityTons,
          scheduledTons |-> Round1(scheduledTons),
          availableTons |-> Round1(availableTons),
          deliveryCount |-> deliveryCount,
          maxDeliveries |-> maxDeliveries,
          availableSlots |-> availableSlots,
          status |-> CapacityStatus(availableTons, TotalCapacityTons),
          sameDayAvailable |-> /\ dateStr = todayStr
                               /\ hour < SAME_DAY_CUTOFF_HOUR
                               /\ availableSlots > 0 ]

DayEntry(d, from, to, todayStr, hour) ==
    IF GetDay(d) = 0
    THEN ClosedDay(FormatDate(d), DAY_NAMES[GetDay(d) + 1])
    ELSE OpenDay(FormatDate(d), DAY_NAMES[GetDay(d) + 1], from, to, todayStr, hour)

(* a loop that stops one day short: d < end *)
RECURSIVE DaysBefore(_, _, _, _, _, _)
DaysBefore(d, end, from, to, todayStr, hour) ==
    IF ~ (d < end) THEN << >>
    ELSE <<DayEntry(d, from, to, todayStr, hour)>>
         \o DaysBefore(d + 1, end, from, to, todayStr, hour)

(* for (let d = new Date(start); d <= end; d.setDate(d.getDate() + 1)) *)
RECURSIVE Days(_, _, _, _, _, _)
Days(d, end, from, to, todayStr, hour) ==
    IF ~ (d <= end) THEN << >>
    ELSE <<DayEntry(d, from, to, todayStr, hour)>>
         \o Days(d + 1, end, from, to, todayStr, hour)

(* todayStr and hour are the date and the hour of nowCST *)
GetCapacity(from, to, todayStr, hour) ==
    /\ response' = 200
    /\ body' = [kind |-> "capacity",
                days |-> Days(ParseDate(from), ParseDate(to), from, to, todayStr, hour)]
    /\ UNCHANGED <<deliveries, inventory, trucks, inflight>>

(* A delivery day: a fleet of three trucks, of 24, 24 and 20 tons, takes
   orders around the weekend of Sunday 2026-03-01 while the capacity of the
   days is queried *)

(* the _id of the i-th truck of the roster, as deliveries refer to it *)
RosterIds == <<"truckA", "truckB", "truckC">>

InitDay ==
    /\ deliveries = << >>
    /\ inventory = [p \in Products |-> InitStock]
    /\ trucks = << NewTruck(<<"A">>, 2400), NewTruck(<<"B">>, 2400),
                   NewTruck(<<"a">>, 2000) >>
    /\ response = 0
    /\ body = OtherBody
    /\ inflight = [r \in Requests |-> Idle]

Saturday == <<2026, 2, 28>>
Sunday == <<2026, 3, 1>>
Monday == <<2026, 3, 2>>

DayOrders ==
    { [quantity |-> 25, deliveryDate |-> Saturday, truckId |-> "truckA"],
      [quantity |-> 1397, deliveryDate |-> Saturday, truckId |-> "truckB"],
      [quantity |-> 6200, deliveryDate |-> Saturday, truckId |-> Null],
      [quantity |-> 25, deliveryDate |-> Sunday, truckId |-> "truckA"] }

(* the ranges queried: around the weekend, in either order *)
DayQueries == [from : {Saturday, Monday}, to : {Saturday, Monday}]

(* the date and the hour at which a query arrives *)
DayClock ==
    { [todayStr |-> Saturday, hour |-> 11], [todayStr |-> Saturday, hour |-> 12],
      [todayStr |-> Sunday, hour |-> 11] }

NextDay ==
    \/ \E o \in DayOrders :
          CreateDelivery(Null, Some(o.quantity), o.deliveryDate, Null, o.truckId, Phone, Email)
    \/ \E id \in DeliveryIds : CancelDelivery(id)
    \/ \E id \in 1..Len(trucks) : DeactivateTruck(id)
    \/ \E c \in {0, 2000} : UpdateTruck(3, None, Some(c), None)
    \/ \E id \in DeliveryIds : UpdateDelivery(id, "truckC", Absent, Absent, FALSE)
    \/ \E q \in DayQueries, now \in DayClock :
          GetCapacity(q.from, q.to, now.todayStr, now.hour)

SpecDay == InitDay /\ [][NextDay]_vars

(* The calendar of the capacity response: the same fleet and orders, queried
   over ranges that cross the end of a month, of a year, of a February with
   and without a leap day, and ranges that end before they start *)

CalendarQueries ==
    DayQueries
    \cup { [from |-> <<2028, 2, 28>>, to |-> <<2028, 3, 1>>],
           [from |-> <<2100, 2, 27>>, to |-> <<2100, 3, 1>>],
           [from |-> <<2026, 12, 30>>, to |-> <<2027, 1, 2>>],
           [from |-> <<2026, 4, 29>>, to |-> <<2026, 5, 3>>],
           [from |-> <<2027, 1, 1>>, to |-> <<2026, 12, 31>>] }

NextCalendar ==
    \/ \E o \in DayOrders :
          CreateDelivery(Null, Some(o.quantity), o.deliveryDate, Null, o.truckId, Phone, Email)
    \/ \E q \in CalendarQueries, now \in DayClock :
          GetCapacity(q.from, q.to, now.todayStr, now.hour)

SpecCalendar == InitDay /\ [][NextCalendar]_vars

---------------------------------------------------------------------------
(* dispatch.js GET, the list query: the filter document built from the query
   string, find, sort.  A query is [date, startDate, endDate, status,
   truckId, driverId, source], each an optional field; status is what
   p.status.split(',') yields. *)

(* query.deliveryDate: p.date, else the range when both ends are given *)
DateMatches(p, d) ==
    IF p.date # None THEN d.deliveryDate = Get(p.date)
    ELSE IF p.startDate # None /\ p.endDate # None
    THEN StrLeq(Get(p.startDate), d.deliveryDate) /\ StrLeq(d.deliveryDate, Get(p.endDate))
    ELSE TRUE

(* a query that would look at the first listed status only *)
StatusMatchesFirst(statuses, d) == d.status = statuses[1]

(* query.status: the one status, or $in the list *)
StatusMatches(statuses, d) ==
    IF Len(statuses) = 1 THEN d.status = statuses[1]
    ELSE \E k \in 1..Len(statuses) : d.status = statuses[k]

QueryMatches(p, d) ==
    /\ DateMatches(p, d)
    /\ p.status # None => StatusMatches(Get(p.status), d)
    /\ p.truckId # None => d.truckId = Get(p.truckId)
    /\ p.driverId # None => d.driverId = Get(p.driverId)
    /\ p.source # None => d.source = Get(p.source)

(* sort({deliveryDate: 1, timeWindow: 1, stopOrder: 1}): the orders queried
   here have no time window and no stop order, and equal keys keep the order
   of insertion *)
RECURSIVE SortedByDate(_)
SortedByDate(S) ==
    IF S = {} THEN << >>
    ELSE LET first == CHOOSE i \in S : \A j \in S :
                         \/ i = j
                         \/ deliveries[i].deliveryDate # deliveries[j].deliveryDate
                            /\ StrLeq(deliveries[i].deliveryDate, deliveries[j].deliveryDate)
                         \/ deliveries[i].deliveryDate = deliveries[j].deliveryDate /\ i < j
         IN  <<first>> \o SortedByDate(S \ {first})

FindDeliveries(p) ==
    /\ response' = 200
    /\ LET results == SortedByDate({i \in 1..Len(deliveries) : QueryMatches(p, deliveries[i])})
       IN  body' = [kind |-> "deliveries", deliveries |-> results, count |-> Len(results)]
    /\ UNCHANGED <<deliveries, inventory, trucks, inflight>>

NoFilter ==
    [date |-> None, startDate |-> None, endDate |-> None, status |-> None,
     truckId |-> None, driverId |-> None, source |-> None]

(* the queries asked: the date, the status and the truck alone and together,
   the ranges, the sources, a driver, three filters at once, and the date
   given in both forms or as half a range *)
DeliveryQueries ==
    { [NoFilter EXCEPT !.date = date, !.status = status, !.truckId = truckId] :
        date \in Optional({Saturday}),
        status \in Optional({<<"SCHEDULED">>, <<"CANCELLED", "EN_ROUTE">>}),
        truckId \in Optional({"truckA"}) }
    \cup { [NoFilter EXCEPT !.startDate = Some(from), !.endDate = Some(to)] :
             from \in {Saturday, Sunday}, to \in {Saturday, Sunday} }
    \cup { [NoFilter EXCEPT !.source = Some(source)] :
             source \in {"Yard Sale", "Texas Got Rocks"} }
    \cup { [NoFilter EXCEPT !.startDate = Some(Saturday), !.endDate = Some(Sunday),
                            !.status = Some(<<"SCHEDULED", "EN_ROUTE">>),
                            !.source = Some("Yard Sale")] }
    \cup { [NoFilter EXCEPT !.driverId = Some("driver1")],
           [NoFilter EXCEPT !.date = Some(Saturday), !.startDate = Some(Sunday),
                            !.endDate = Some(Sunday)],
           [NoFilter EXCEPT !.startDate = Some(Sunday)] }

NextQuery ==
    \/ \E date \in {Saturday, Sunday}, t \in {"truckA", "truckB", Null} :
          CreateDelivery(Null, Some(2), date, Null, t, Phone, Email)
    \/ \E id \in DeliveryIds : UpdateDelivery(id, Absent, Absent, "EN_ROUTE", FALSE)
    \/ \E id \in DeliveryIds : CancelDelivery(id)
    \/ \E p \in DeliveryQueries : FindDeliveries(p)

SpecQuery == Init /\ [][NextQuery]_vars

---------------------------------------------------------------------------
(* Properties of the delivery lifecycle *)

NonTerminal == {"UNASSIGNED", "SCHEDULED", "EN_ROUTE"}

(* C1: in every reachable state each delivery's status equals the status of
   the last entry of its statusHistory. *)
StatusIsLastHistoryStatus ==
    \A i \in 1..Len(deliveries) :
        deliveries[i].status = Last(deliveries[i].statusHistory)

(* The status of the last statusHistory entry that finalizeSchedule did not
   append.  The statuses a request carries are the five lifecycle statuses,
   so the FINALIZED entries are exactly the ones finalizeSchedule wrote. *)
RECURSIVE LastTransitionStatus(_)
LastTransitionStatus(h) ==
    IF h = << >> THEN Null
    ELSE IF Last(h) # "FINALIZED" THEN Last(h)
    ELSE LastTransitionStatus(SubSeq(h, 1, Len(h) - 1))

(* C1, amended: in every reachable state each delivery's status equals the
   status of the last entry of its statusHistory other than the FINALIZED
   markers that finalizeSchedule appends. *)
StatusIsLastTransitionStatus ==
    \A i \in 1..Len(deliveries) :
        deliveries[i].status = LastTransitionStatus(deliveries[i].statusHistory)

(* C1, the case reached: a finalized delivery that then changed status *)
StatusChangedAfterFinalize ==
    \E i \in 1..Len(deliveries) :
        LET h == deliveries[i].statusHistory
        IN  /\ Len(h) >= 3
            /\ h[Len(h) - 1] = "FINALIZED"
            /\ Last(h) # "FINALIZED"
            /\ deliveries[i].status = Last(h)

(* The quantity that the deliveries of product p which were marked DELIVERED
   (once or more) take from stock, each counted once *)
RECURSIVE DeliveredTons(_, _)
DeliveredTons(p, n) ==
    IF n = 0 THEN 0
    ELSE DeliveredTons(p, n - 1)
         + (IF /\ deliveries[n].productId = p
               /\ \E k \in 1..Len(deliveries[n].statusHistory) :
                      deliveries[n].statusHistory[k] = "DELIVERED"
            THEN deliveries[n].quantity ELSE 0)

(* C2: however many times a delivery is marked DELIVERED, the stock of its
   material is decremented by the delivery's quantity exactly once in total;
   a delivery without a material reference causes no decrement. *)
InventoryDepletedOncePerDelivery ==
    \A p \in Products :
        inventory[p] = InitStock - DeliveredTons(p, Len(deliveries))

(* The Slot Conflict Checker's contract: a non-cancelled delivery other than
   `exclude` holds the same truck, date and time window *)
SlotTaken(truckId, date, timeWindow, exclude) ==
    \E j \in 1..Len(deliveries) :
        /\ j # exclude
        /\ deliveries[j].status # "CANCELLED"
        /\ deliveries[j].truckId = truckId
        /\ deliveries[j].deliveryDate = date
        /\ deliveries[j].timeWindow = timeWindow

RequestedWindow(id, b) ==
    IF b.timeWindow # Absent THEN b.timeWindow ELSE deliveries[id].timeWindow

(* C3: a setTruck request for a (truck, date, time window) that another
   non-cancelled delivery already holds fails and changes no delivery
   record; a setTruck request for a free time window of the same truck and
   date succeeds and books it. *)
SetTruckRespectsBookedSlot ==
    [][ \A id \in DeliveryIds, b \in BookingBodies :
          ( /\ b.truckId \in TruckIds
            /\ b.status = Absent
            /\ UpdateDelivery(id, b.truckId, b.timeWindow, b.status, b.enRouteSmsSent)
            /\ RequestedWindow(id, b) \in TimeWindows )
          => IF SlotTaken(b.truckId, deliveries[id].deliveryDate, RequestedWindow(id, b), id)
             THEN response' # 200 /\ deliveries' = deliveries
             ELSE /\ response' = 200
                  /\ deliveries'[id].truckId = b.truckId
                  /\ deliveries'[id].timeWindow = RequestedWindow(id, b) ]_vars

(* C4: in every reachable state no two distinct non-cancelled deliveries
   have the same non-null truckId, the same delivery date and the same time
   window. *)
NoDoubleBooking ==
    \A i, j \in 1..Len(deliveries) :
        ( /\ i # j
          /\ deliveries[i].status # "CANCELLED"
          /\ deliveries[j].status # "CANCELLED"
          /\ deliveries[i].truckId # Null
          /\ deliveries[i].timeWindow # Null )
        => ~ ( /\ deliveries[i].truckId = deliveries[j].truckId
               /\ deliveries[i].deliveryDate = deliveries[j].deliveryDate
               /\ deliveries[i].timeWindow = deliveries[j].timeWindow )

(* C5: DELIVERED and CANCELLED are terminal: a request other than the cancel
   request leaves a delivery that is DELIVERED or CANCELLED exactly as it
   was, so its status never changes again. *)
TerminalStatusIsFinal ==
    [][ \A id \in 1..Len(deliveries) :
          (deliveries[id].status \in Terminal /\ ~ CancelDelivery(id))
          => /\ deliveries'[id].status = deliveries[id].status
             /\ deliveries'[id].statusHistory = deliveries[id].statusHistory ]_vars

(* C6: cancelling a delivery that is already CANCELLED or DELIVERED returns
   success and leaves the record (status, cancelledAt, statusHistory) as it
   was. *)
CancelOfTerminalIsNoOp ==
    [][ \A id \in 1..Len(deliveries) :
          (deliveries[id].status \in Terminal /\ CancelDelivery(id))
          => /\ response' = 200
             /\ deliveries'[id] = deliveries[id] ]_vars

(* C7: cancelling a delivery that is UNASSIGNED, SCHEDULED or EN_ROUTE sets
   its status to CANCELLED, sets cancelledAt to the time of the request,
   appends exactly one statusHistory entry, with status CANCELLED, and
   leaves every other delivery unchanged. *)
CancelOfNonTerminal ==
    [][ \A id \in 1..Len(deliveries) :
          (deliveries[id].status \in NonTerminal /\ CancelDelivery(id))
          => /\ Len(deliveries') = Len(deliveries)
             /\ deliveries'[id].status = "CANCELLED"
             /\ deliveries'[id].cancelledAt # NullTime
             /\ deliveries'[id].cancelledAt = Len(deliveries'[id].statusHistory)
             /\ deliveries'[id].statusHistory
                   = Append(deliveries[id].statusHistory, "CANCELLED")
             /\ \A j \in 1..Len(deliveries) : j # id => deliveries'[j] = deliveries[j]
             /\ response' = 200 ]_vars

(* C7, the case reached: a delivery cancelled from a non-terminal status
   while another delivery is on the board *)
CancelledFromNonTerminal ==
    /\ Len(deliveries) = 2
    /\ response = 200
    /\ \E id \in 1..Len(deliveries) :
          LET h == deliveries[id].statusHistory
          IN  /\ deliveries[id].status = "CANCELLED"
              /\ Len(h) >= 2
              /\ h[Len(h)] = "CANCELLED"
              /\ h[Len(h) - 1] \in NonTerminal
              /\ deliveries[id].cancelledAt = Len(h)

(* A markEnRoute request for delivery id: the en-route notification, or an
   update whose status is EN_ROUTE *)
MarkEnRoute(id) ==
    \/ \E smsOk \in BOOLEAN, emailOk \in BOOLEAN : NotifyEnRoute(id, smsOk, emailOk)
    \/ \E b \in UpdateBodies :
          /\ b.status = "EN_ROUTE"
          /\ UpdateDelivery(id, b.truckId, b.timeWindow, b.status, b.enRouteSmsSent)

(* C8: markEnRoute on a delivery whose status is not SCHEDULED fails and
   leaves status, enRouteAt and statusHistory unchanged. *)
MarkEnRouteNeedsScheduled ==
    [][ \A id \in 1..Len(deliveries) :
          (deliveries[id].status # "SCHEDULED" /\ MarkEnRoute(id))
          => /\ response' # 200
             /\ deliveries'[id].status = deliveries[id].status
             /\ deliveries'[id].enRouteAt = deliveries[id].enRouteAt
             /\ deliveries'[id].statusHistory = deliveries[id].statusHistory ]_vars

(* A markDelivered request for delivery id: an update whose status is
   DELIVERED *)
MarkDelivered(id) ==
    \E b \in UpdateBodies :
        /\ b.status = "DELIVERED"
        /\ UpdateDelivery(id, b.truckId, b.timeWindow, b.status, b.enRouteSmsSent)

WasScheduledBeforeDelivered(d) ==
    d.status = "DELIVERED"
    => \E k \in 1..(Len(d.statusHistory) - 1) : d.statusHistory[k] = "SCHEDULED"

(* C9: markDelivered takes effect only on a delivery that is EN_ROUTE or
   SCHEDULED: on an UNASSIGNED, DELIVERED or CANCELLED delivery it leaves
   status and statusHistory as they were, so that every delivery that is
   DELIVERED has a SCHEDULED entry earlier in its statusHistory. *)
MarkDeliveredNeedsScheduled ==
    [][ /\ \A id \in 1..Len(deliveries) :
             (deliveries[id].status \notin {"EN_ROUTE", "SCHEDULED"} /\ MarkDelivered(id))
             => /\ deliveries'[id].status = deliveries[id].status
                /\ deliveries'[id].statusHistory = deliveries[id].statusHistory
        /\ \A i \in 1..Len(deliveries') : WasScheduledBeforeDelivered(deliveries'[i]) ]_vars

---------------------------------------------------------------------------
(* Properties of the truck roster *)

(* A truck number as compared by the roster: trimmed, case-insensitive *)
Normalized(truckNumber) == ToLower(Trim(truckNumber))

(* C10: in every reachable state any two distinct active trucks have
   different truck numbers, compared trimmed and case-insensitively. *)
ActiveTruckNumbersDiffer ==
    \A i, j \in 1..Len(trucks) :
        (i # j /\ trucks[i].active = TRUE /\ trucks[j].active = TRUE)
        => Normalized(trucks[i].truckNumber) # Normalized(trucks[j].truckNumber)

(* A registerTruck request, as handled by any of the three versions of the
   trucks function *)
RegisterTruck(truckNumber, capacity) ==
    \/ RegisterTruckExact(truckNumber, capacity)
    \/ RegisterTruckNoCase(truckNumber, capacity)
    \/ RegisterTruckActive(truckNumber, capacity)

ActiveTruckHolds(truckNumber) ==
    \E i \in 1..Len(trucks) :
        /\ trucks[i].active = TRUE
        /\ Normalized(trucks[i].truckNumber) = Normalized(truckNumber)

(* C11: registerTruck (with a capacity) fails exactly when an active truck
   holds the same number, compared trimmed and case-insensitively, and then
   adds no truck; otherwise it succeeds and adds one active truck. *)
RegisterTruckFailsIffActiveHolder ==
    [][ \A n \in TruckNumbers, c \in Capacities :
          RegisterTruck(n, Some(c))
          => IF ActiveTruckHolds(n)
             THEN response' # 201 /\ trucks' = trucks
             ELSE /\ response' = 201
                  /\ Len(trucks') = Len(trucks) + 1
                  /\ SubSeq(trucks', 1, Len(trucks)) = trucks
                  /\ Last(trucks').active = TRUE ]_vars

---------------------------------------------------------------------------
(* Properties of the notification flags *)

NotificationFlags ==
    {"scheduleSmsSent", "scheduleEmailSent", "enRouteSmsSent",
     "enRouteEmailSent", "deliveredSmsSent", "deliveredEmailSent"}

(* C12: once a notification flag of a delivery is true, no later operation
   sets it back to false. *)
NotificationFlagsStaySet ==
    [][ \A id \in 1..Len(deliveries), flag \in NotificationFlags :
          deliveries[id][flag] => deliveries'[id][flag] ]_vars

---------------------------------------------------------------------------
(* Properties of the Assignment Committer *)

UnknownItems(items) == (1..Len(items)) \ KnownItems(items)

(* the items of the batch that name the same delivery as item k *)
SameDelivery(items, k) ==
    {j \in 1..Len(items) : items[j].deliveryId = items[k].deliveryId}

(* item k is the last item of the batch that names its delivery *)
LastFor(items, k) == \A j \in SameDelivery(items, k) : j <= k

CountsAndErrors(items) ==
    /\ body'.totalCount = Len(items)
    /\ body'.appliedCount = Cardinality(KnownItems(items))
    /\ Len(body'.perItemErrors) = Cardinality(UnknownItems(items))
    /\ \A k \in UnknownItems(items) :
          Cardinality({e \in 1..Len(body'.perItemErrors) :
                         body'.perItemErrors[e].deliveryId = items[k].deliveryId})
          = Cardinality(SameDelivery(items, k))

(* C13: applyAssignments isolates failures per item: totalCount is the size
   of the batch, appliedCount the number of items whose delivery exists,
   perItemErrors has exactly one entry for each item whose delivery does not
   exist, and every item whose delivery exists is applied (truck and time
   window set, status SCHEDULED) even when other items fail. *)
ApplyAssignmentsIsolatesFailures ==
    [][ \A items \in AssignmentBatches :
          ApplyAssignments("2026-02-18", items)
          => /\ CountsAndErrors(items)
             /\ \A k \in KnownItems(items) :
                   LastFor(items, k)
                   => /\ deliveries'[items[k].deliveryId].truckId = items[k].truckId
                      /\ deliveries'[items[k].deliveryId].timeWindow = items[k].timeWindow
                      /\ deliveries'[items[k].deliveryId].status = "SCHEDULED" ]_vars

(* C13, amended: as above, but the status of an applied item's delivery is
   SCHEDULED unless the delivery was DELIVERED or CANCELLED, in which case
   its status stays as it was; each applied item appends one history
   entry. *)
ApplyAssignmentsIsolatesFailuresKeepingTerminal ==
    [][ \A items \in AssignmentBatches :
          ApplyAssignments("2026-02-18", items)
          => /\ CountsAndErrors(items)
             /\ \A k \in KnownItems(items) :
                   LET id == items[k].deliveryId
                   IN  /\ Len(deliveries'[id].statusHistory)
                            = Len(deliveries[id].statusHistory)
                              + Cardinality(SameDelivery(items, k))
                       /\ LastFor(items, k)
                            => /\ deliveries'[id].truckId = items[k].truckId
                               /\ deliveries'[id].timeWindow = items[k].timeWindow
                               /\ deliveries'[id].status
                                     = IF deliveries[id].status \in Terminal
                                       THEN deliveries[id].status
                                       ELSE "SCHEDULED" ]_vars

(* C13, the case reached: a batch of three items, one of them naming an
   unknown delivery, applied to a board with a cancelled delivery *)
BatchAppliedAroundFailure ==
    /\ body.kind = "applyAssignments"
    /\ body.totalCount = 3
    /\ body.appliedCount = 2
    /\ Len(body.perItemErrors) = 1
    /\ Len(deliveries) = 2
    /\ \A i \in 1..2 : deliveries[i].truckId \in TruckIds
    /\ \E i \in 1..2 : deliveries[i].status = "CANCELLED"
    /\ \E i \in 1..2 : deliveries[i].status = "SCHEDULED"

(* the batches that hold the items of `items` in another order *)
Reordered(items) ==
    {[k \in 1..Len(items) |-> items[f[k]]] : f \in Permutations(1..Len(items))}

ErrorSet(errors) == {errors[e] : e \in 1..Len(errors)}

SameOutcome(items, other) ==
    LET r == Committed(deliveries, other)
    IN  /\ r.ds = deliveries'
        /\ r.appliedCount = body'.appliedCount
        /\ Len(other) = body'.totalCount
        /\ ErrorSet(r.perItemErrors) = ErrorSet(body'.perItemErrors)

(* C14: the result of applyAssignments does not depend on the order of its
   items: any permutation of the batch, applied to the same board, yields
   the same delivery records, the same appliedCount and totalCount and the
   same set of per-item errors. *)
ApplyAssignmentsOrderIndependent ==
    [][ \A items \in AssignmentBatches :
          ApplyAssignments("2026-02-18", items)
          => \A other \in Reordered(items) : SameOutcome(items, other) ]_vars

DistinctDeliveries(items) ==
    \A k \in KnownItems(items) : SameDelivery(items, k) = {k}

(* C14, amended: for a batch in which no two items name the same existing
   delivery, any permutation of the batch, applied to the same board, yields
   the same delivery records, the same appliedCount and totalCount and the
   same set of per-item errors. *)
ApplyAssignmentsOrderIndependentOnDistinct ==
    [][ \A items \in AssignmentBatches :
          (ApplyAssignments("2026-02-18", items) /\ DistinctDeliveries(items))
          => \A other \in Reordered(items) : SameOutcome(items, other) ]_vars

(* C14, the case reached: a batch that puts two deliveries on two different
   trucks, one item failing *)
TwoDeliveriesPlanned ==
    /\ body.kind = "applyAssignments"
    /\ body.appliedCount = 2
    /\ Len(body.perItemErrors) = 1
    /\ Len(deliveries) = 2
    /\ deliveries[1].status = "SCHEDULED"
    /\ deliveries[2].status = "SCHEDULED"
    /\ deliveries[1].truckId = "truckA"
    /\ deliveries[2].truckId = "truckB"

---------------------------------------------------------------------------
(* Properties of the capacity calculator.  The days of a capacity response
   are compared with the fleet and the board of the state the response was
   computed in: every other request replaces the response body. *)

OpenDays ==
    IF body.kind = "capacity"
    THEN {k \in 1..Len(body.days) : body.days[k].status # "closed"}
    ELSE {}

(* the non-cancelled deliveries of a day *)
BookedOn(dateStr) ==
    {i \in 1..Len(deliveries) :
        deliveries[i].deliveryDate = dateStr /\ deliveries[i].status # "CANCELLED"}

(* the tons booked on a day, unrounded, in hundredths *)
RECURSIVE BookedTons(_, _)
BookedTons(dateStr, n) ==
    IF n = 0 THEN 0
    ELSE BookedTons(dateStr, n - 1)
         + (IF n \in BookedOn(dateStr) THEN deliveries[n].quantity ELSE 0)

(* C15: for every non-closed day returned by computeCapacity, availableTons
   = max(0, totalCapacityTons - scheduledTons). *)
AvailableIsCapacityLessScheduled ==
    \A k \in OpenDays :
        body.days[k].availableTons
          = Max(0, body.days[k].totalCapacityTons - body.days[k].scheduledTons)

(* C15, amended: for every non-closed day, scheduledTons is the day's
   tonnage rounded to one decimal place and availableTons is
   max(0, totalCapacityTons - tonnage) rounded to one decimal place, so it
   is never negative and is 0 when the tonnage reaches the capacity; when
   the tonnage and the capacity are whole numbers of tenths and the tonnage
   does not exceed the capacity, availableTons + scheduledTons equals
   totalCapacityTons. *)
AvailableIsRoundedCapacityLessTonnage ==
    \A k \in OpenDays :
        LET day  == body.days[k]
            tons == BookedTons(day.date, Len(deliveries))
        IN  /\ day.scheduledTons = Round1(tons)
            /\ day.availableTons = Round1(Max(0, day.totalCapacityTons - tons))
            /\ day.availableTons >= 0
            /\ tons >= day.totalCapacityTons => day.availableTons = 0
            /\ ( /\ tons % 10 = 0
                 /\ day.totalCapacityTons % 10 = 0
                 /\ tons <= day.totalCapacityTons )
               => day.availableTons + day.scheduledTons = day.totalCapacityTons

(* C15, the cases reached: a day booked beyond the capacity of the fleet,
   and a day whose tonnage is not a whole number of tenths *)
OverbookedAndFractionalDays ==
    /\ \E k \in OpenDays :
          /\ BookedTons(body.days[k].date, Len(deliveries)) > body.days[k].totalCapacityTons
          /\ body.days[k].totalCapacityTons > 0
          /\ body.days[k].availableTons = 0
    /\ \E k \in OpenDays :
          BookedTons(body.days[k].date, Len(deliveries)) % 10 # 0

(* the status that the remaining share available / total stands for *)
StatusOfShare(available, total) ==
    IF total > 0 /\ 10 * available > 3 * total THEN "available"
    ELSE IF total > 0 /\ 10 * available > total THEN "limited"
    ELSE "full"

(* the fleet of the scenario: three active trucks of 24, 24 and 20 tons *)
ScenarioFleet ==
    /\ Len(trucks) = 3
    /\ \A i \in 1..3 : trucks[i].active = TRUE
    /\ <<trucks[1].capacity, trucks[2].capacity, trucks[3].capacity>> = <<2400, 2400, 2000>>

ScenarioDays(day, tons) ==
    /\ (ScenarioFleet /\ tons = 0)
          => day.status = "available" /\ day.totalCapacityTons = 6800
    /\ (ScenarioFleet /\ tons = 6200)
          => day.status = "full" /\ day.availableTons = 600

(* C16: for every non-closed day the status is 'available' when
   availableTons / totalCapacityTons > 0.30, 'limited' when the ratio is
   > 0.10 and <= 0.30, and 'full' otherwise (ratio 0 when totalCapacityTons
   is 0); a fleet of [24, 24, 20] tons with no deliveries is 'available'
   with totalCapacityTons 68, and with 62 tons scheduled is 'full' with
   availableTons 6. *)
StatusFollowsReportedShare ==
    \A k \in OpenDays :
        LET day == body.days[k]
        IN  /\ day.status = StatusOfShare(day.availableTons, day.totalCapacityTons)
            /\ ScenarioDays(day, BookedTons(day.date, Len(deliveries)))

(* C16, amended: as above, the ratio being that of the unrounded available
   tonnage, max(0, totalCapacityTons - tonnage of the day), to
   totalCapacityTons, not that of the rounded availableTons of the
   response. *)
StatusFollowsUnroundedShare ==
    \A k \in OpenDays :
        LET day  == body.days[k]
            tons == BookedTons(day.date, Len(deliveries))
        IN  /\ day.status
                  = StatusOfShare(Max(0, day.totalCapacityTons - tons), day.totalCapacityTons)
            /\ ScenarioDays(day, tons)

(* C16, the case reached: the scenario's fleet with 62 tons booked on a day *)
ScenarioDayIsFull ==
    /\ ScenarioFleet
    /\ \E k \in OpenDays :
          /\ BookedTons(body.days[k].date, Len(deliveries)) = 6200
          /\ body.days[k].status = "full"
          /\ body.days[k].availableTons = 600

(* the capacity of the active trucks among the first n of the roster, as
   stored (withDefault = FALSE) or with a stored capacity of 0 counted as the
   default of 24 tons (withDefault = TRUE) *)
RECURSIVE RosterTons(_, _)
RosterTons(n, withDefault) ==
    IF n = 0 THEN 0
    ELSE RosterTons(n - 1, withDefault)
         + (IF trucks[n].active = TRUE
            THEN IF withDefault /\ trucks[n].capacity = 0 THEN 2400 ELSE trucks[n].capacity
            ELSE 0)

DayCounts(day) ==
    /\ day.totalTrucks = Cardinality({i \in 1..Len(trucks) : trucks[i].active = TRUE})
    /\ day.deliveryCount = Cardinality(BookedOn(day.date))
    /\ day.trucksUsed
          = Cardinality({t \in TruckIds \cup {"truckC"} :
                           \E i \in BookedOn(day.date) : deliveries[i].truckId = t})
    /\ day.availableSlots = Max(0, day.totalTrucks * 5 - day.deliveryCount)

(* C17: for every non-closed day, totalTrucks is the number of active
   trucks, totalCapacityTons the sum of their capacities, scheduledTons the
   sum of the day's non-cancelled delivery quantities, deliveryCount their
   number, trucksUsed the number of distinct truckIds among them, and
   availableSlots = max(0, totalTrucks * 5 - deliveryCount). *)
DayCountsActiveAndBooked ==
    \A k \in OpenDays :
        LET day == body.days[k]
        IN  /\ DayCounts(day)
            /\ day.totalCapacityTons = RosterTons(Len(trucks), FALSE)
            /\ day.scheduledTons = BookedTons(day.date, Len(deliveries))

(* C17, amended: as above, with scheduledTons the sum of the day's
   non-cancelled delivery quantities rounded to one decimal place, and
   totalCapacityTons the sum of the active trucks' capacities in which a
   truck whose stored capacity is 0 or missing counts as 24 tons. *)
DayCountsActiveAndBookedRounded ==
    \A k \in OpenDays :
        LET day == body.days[k]
        IN  /\ DayCounts(day)
            /\ day.totalCapacityTons = RosterTons(Len(trucks), TRUE)
            /\ day.scheduledTons = Round1(BookedTons(day.date, Len(deliveries)))

(* C17, the case reached: a day with a cancelled and a live delivery, while
   a truck of the roster is deactivated *)
DayWithCancelledAndDeactivated ==
    \E k \in OpenDays :
        /\ body.days[k].deliveryCount = 1
        /\ body.days[k].totalTrucks = 2
        /\ body.days[k].trucksUsed = 1
        /\ \E i \in 1..Len(deliveries) :
              /\ deliveries[i].deliveryDate = body.days[k].date
              /\ deliveries[i].status = "CANCELLED"
        /\ \E i \in 1..Len(trucks) : trucks[i].active = FALSE

(* The calendar: the day after a date *)
LeapYear(y) == (y % 4 = 0 /\ y % 100 # 0) \/ y % 400 = 0

DaysInMonth(y, m) ==
    IF m = 2 THEN (IF LeapYear(y) THEN 29 ELSE 28)
    ELSE IF m \in {4, 6, 9, 11} THEN 30 ELSE 31

DayAfter(date) ==
    IF date[3] < DaysInMonth(date[1], date[2]) THEN <<date[1], date[2], date[3] + 1>>
    ELSE IF date[2] < 12 THEN <<date[1], date[2] + 1, 1>>
    ELSE <<date[1] + 1, 1, 1>>

(* C18: computeCapacity(fromDate, toDate) returns exactly one entry per
   calendar day of [fromDate, toDate], in ascending date order with no day
   missing or repeated, and an empty sequence when fromDate is after
   toDate. *)
OneEntryPerCalendarDay ==
    [][ \A q \in CalendarQueries, now \in DayClock :
          GetCapacity(q.from, q.to, now.todayStr, now.hour)
          => IF ~ StrLeq(q.from, q.to)
             THEN body'.days = << >>
             ELSE /\ Len(body'.days) >= 1
                  /\ body'.days[1].date = q.from
                  /\ body'.days[Len(body'.days)].date = q.to
                  /\ \A k \in 1..(Len(body'.days) - 1) :
                        body'.days[k + 1].date = DayAfter(body'.days[k].date) ]_vars

(* C18, the case reached: a range that runs over a leap day *)
RangeOverLeapDay ==
    /\ body.kind = "capacity"
    /\ Len(body.days) = 3
    /\ body.days[2].date = <<2028, 2, 29>>
    /\ body.days[3].date = <<2028, 3, 1>>

(* The day of the week of a date, by Zeller's congruence: 0 is Saturday,
   1 is Sunday *)
Zeller(date) ==
    LET m == IF date[2] <= 2 THEN date[2] + 12 ELSE date[2]
        y == IF date[2] <= 2 THEN date[1] - 1 ELSE date[1]
    IN  (date[3] + (13 * (m + 1)) \div 5 + (y % 100) + (y % 100) \div 4
         + (y \div 100) \div 4 + 5 * (y \div 100)) % 7

SundayEntries ==
    IF body.kind = "capacity"
    THEN {k \in 1..Len(body.days) : Zeller(body.days[k].date) = 1}
    ELSE {}

(* C19: for a Sunday, computeCapacity emits an entry with status 'closed',
   all capacity, tonnage, truck and slot fields equal to 0 and
   sameDayAvailable false, whatever trucks are active and whatever
   deliveries are booked on that day. *)
SundayIsClosed ==
    \A k \in SundayEntries :
        LET day == body.days[k]
        IN  /\ day.status = "closed"
            /\ day.dayName = "Sunday"
            /\ day.totalTrucks = 0
            /\ day.trucksUsed = 0
            /\ day.trucksAvailable = 0
            /\ day.totalCapacityTons = 0
            /\ day.scheduledTons = 0
            /\ day.availableTons = 0
            /\ day.deliveryCount = 0
            /\ day.maxDeliveries = 0
            /\ day.availableSlots = 0
            /\ day.sameDayAvailable = FALSE

(* C19, the case reached: a Sunday entry while trucks are active and a
   delivery is booked on that Sunday *)
SundayWithFleetAndBooking ==
    /\ SundayEntries # {}
    /\ \E i \in 1..Len(trucks) : trucks[i].active = TRUE
    /\ \E k \in SundayEntries : BookedOn(body.days[k].date) # {}

---------------------------------------------------------------------------
(* Properties of the fleet and the board together *)

(* C20: a deactivated truck receives no new assignment: once truck T is
   deactivated, no createDelivery or setTruck request that names T as
   truckId results in a delivery assigned to T. *)
DeactivatedTruckGetsNoDelivery ==
    [][ \A i \in 1..Len(trucks) :
          trucks[i].active = FALSE
          => \A d \in 1..Len(deliveries') :
                deliveries'[d].truckId = RosterIds[i]
                => /\ d <= Len(deliveries)
                   /\ deliveries[d].truckId = RosterIds[i] ]_vars

---------------------------------------------------------------------------
(* Properties of the requests of the lifecycle, one by one *)

(* a createDelivery step: the collection grows by one document *)
Created == Len(deliveries') = Len(deliveries) + 1

(* C21: createDelivery yields a delivery whose status is SCHEDULED if a
   truckId was supplied and UNASSIGNED otherwise, whose statusHistory holds
   exactly one entry with that same status, and whose six notification
   flags are all false. *)
CreatedDeliveryIsFresh ==
    [][ Created
        => LET d == Last(deliveries')
           IN  /\ d.status = IF d.truckId # Null THEN "SCHEDULED" ELSE "UNASSIGNED"
               /\ d.statusHistory = << d.status >>
               /\ \A flag \in NotificationFlags : d[flag] = FALSE ]_vars

(* C21, the case reached: one delivery created with a truck and one created
   without, neither touched since *)
CreatedWithAndWithoutTruck ==
    \E i, j \in 1..Len(deliveries) :
        /\ deliveries[i].truckId # Null /\ deliveries[i].statusHistory = <<"SCHEDULED">>
        /\ deliveries[j].truckId = Null /\ deliveries[j].statusHistory = <<"UNASSIGNED">>

(* C22: finalizeSchedule(date) returns the list of deliveries affected by
   that call: the returned set is exactly the set of deliveries that were
   SCHEDULED on that date with the schedule-notification flag unset and
   that this call marked and gave a FINALIZED history entry. *)
FinalizeReturnsAffected ==
    [][ \A date \in Dates :
          FinalizeSchedule(date)
          => body'.toNotify =
                { i \in 1..Len(deliveries) :
                    /\ deliveries[i].deliveryDate = date
                    /\ deliveries[i].status = "SCHEDULED"
                    /\ deliveries[i].scheduleSmsSent = FALSE
                    /\ deliveries'[i].scheduleSmsSent = TRUE
                    /\ deliveries'[i].statusHistory =
                          Append(deliveries[i].statusHistory, "FINALIZED") } ]_vars

(* the deliveries a finalize of the date is to mark *)
Unfinalized(ds, date) ==
    { i \in 1..Len(ds) :
        /\ ds[i].deliveryDate = date
        /\ ds[i].status = "SCHEDULED"
        /\ ds[i].scheduleSmsSent = FALSE }

(* C23: finalizeSchedule(date) changes only deliveries that are SCHEDULED on
   that date with the schedule-notification flag unset, adds exactly one
   FINALIZED history entry to each of them, and never changes any status; a
   second finalizeSchedule(date) with no operation in between changes no
   delivery record. *)
FinalizeMarksOnce ==
    [][ \A date \in Dates :
          FinalizeSchedule(date)
          => /\ Len(deliveries') = Len(deliveries)
             /\ \A i \in 1..Len(deliveries) :
                   /\ deliveries'[i].status = deliveries[i].status
                   /\ deliveries'[i] =
                         IF i \in Unfinalized(deliveries, date)
                         THEN [deliveries[i] EXCEPT
                                 !.scheduleSmsSent = TRUE,
                                 !.statusHistory = Append(@, "FINALIZED")]
                         ELSE deliveries[i]
             /\ [i \in 1..Len(deliveries') |->
                    IF i \in FinalizeMatches(date)'
                    THEN Finalized(deliveries'[i])
                    ELSE deliveries'[i]] = deliveries' ]_vars

(* C23, the case reached: a finalize that found the date's deliveries
   already finalized and marked none *)
FinalizedAgain ==
    /\ body.kind = "finalize"
    /\ body.finalized = 0
    /\ \E i \in body.toNotify :
          /\ deliveries[i].scheduleSmsSent
          /\ Last(deliveries[i].statusHistory) = "FINALIZED"

(* C26: in every reachable state, a delivery whose status is DELIVERED has
   deliveredAt set (non-null). *)
DeliveredHasDeliveredAt ==
    \A i \in 1..Len(deliveries) :
        deliveries[i].status = "DELIVERED" => deliveries[i].deliveredAt # NullTime

(* C26, the case reached: a delivery marked DELIVERED by an update request *)
SomeDelivered ==
    \E i \in 1..Len(deliveries) :
        /\ deliveries[i].status = "DELIVERED"
        /\ Last(deliveries[i].statusHistory) = "DELIVERED"
        /\ deliveries[i].deliveredAt = Len(deliveries[i].statusHistory)

(* C27: in every reachable state, each delivery's status is one of
   UNASSIGNED, SCHEDULED, EN_ROUTE, DELIVERED, CANCELLED, whatever status
   value a caller supplies in an update request. *)
StatusIsLifecycleStatus ==
    \A i \in 1..Len(deliveries) : deliveries[i].status \in Statuses

(* C28: an update (assign truck, status change, mark delivered) or a cancel
   whose id matches no delivery fails with NotFound, creates no delivery,
   changes no existing delivery and decrements no inventory. *)
UnknownIdIsNotFound ==
    [][ \A id \in DeliveryIds :
          UpdateMissing(id)
          => /\ response' = 404
             /\ deliveries' = deliveries
             /\ inventory' = inventory ]_vars

(* C29: the statusHistory of a delivery is append-only: every operation
   either leaves it unchanged or appends exactly one entry at its end; no
   operation removes, reorders or rewrites an existing entry. *)
StatusHistoryIsAppendOnly ==
    [][ /\ Len(deliveries') >= Len(deliveries)
        /\ \A i \in 1..Len(deliveries) :
              LET before == deliveries[i].statusHistory
                  after == deliveries'[i].statusHistory
              IN  \/ after = before
                  \/ /\ Len(after) = Len(before) + 1
                     /\ SubSeq(after, 1, Len(before)) = before ]_vars

(* C29, the case reached: a history grown entry by entry by three different
   requests *)
HistoryOfThreeEntries ==
    \E i \in 1..Len(deliveries) :
        /\ Len(deliveries[i].statusHistory) = 3
        /\ deliveries[i].statusHistory[2] # deliveries[i].statusHistory[3]

(* C32: in every reachable state, every delivery's quantity is >= 0,
   whatever quantity value (including a negative number) is supplied to
   createDelivery. *)
QuantityIsNeverNegative ==
    \A i \in 1..Len(deliveries) : deliveries[i].quantity >= 0

---------------------------------------------------------------------------
(* Properties of reaching the customer *)

(* C24: a failing notification never blocks or rolls back the status
   transition it accompanies: an en-route notification request for an
   existing delivery records status EN_ROUTE, enRouteAt and one history
   entry whether the SMS and email sends succeed, fail or are skipped, and
   a failed SMS send does not prevent the email send from being attempted. *)
EnRouteSurvivesFailedSends ==
    [][ \A id \in DeliveryIds, smsOk \in BOOLEAN, emailOk \in BOOLEAN :
          NotifyEnRoute(id, smsOk, emailOk)
          => LET d == deliveries[id]
                 e == deliveries'[id]
             IN  /\ e.status = "EN_ROUTE"
                 /\ e.enRouteAt = Len(e.statusHistory)
                 /\ e.statusHistory = Append(d.statusHistory, "EN_ROUTE")
                 /\ e.enRouteEmailSent = emailOk
                 /\ response' = 200 ]_vars

(* C24, the case reached: a delivery en route whose SMS was attempted and
   failed and whose e-mail went out all the same *)
EnRouteAfterFailedSms ==
    \E i \in 1..Len(deliveries) :
        /\ deliveries[i].status = "EN_ROUTE"
        /\ deliveries[i].enRouteAt # NullTime
        /\ deliveries[i].customerPhone # NoContact
        /\ ~ deliveries[i].enRouteSmsSent
        /\ deliveries[i].enRouteEmailSent

(* C34: across any sequence of non-overlapping delivered-notification
   requests for one delivery, each channel is sent successfully at most
   once: after the SMS has been accepted once no later request sends the
   SMS again, likewise for the email, and a request arriving when both
   flags are set sends nothing and changes no record.  A request that gets
   a channel accepted sets its flag, and a request that finds the flag set
   does not try the channel: so the second success never comes. *)
DeliveredChannelsSentOnce ==
    [][ \A id \in DeliveryIds, smsOk \in BOOLEAN, emailOk \in BOOLEAN :
          NotifyDelivered(id, smsOk, emailOk)
          => LET d == deliveries[id]
                 e == deliveries'[id]
             IN  /\ d.deliveredSmsSent => ~ body'.smsSent /\ e.deliveredSmsSent
                 /\ d.deliveredEmailSent => ~ body'.emailSent /\ e.deliveredEmailSent
                 /\ body'.smsSent => e.deliveredSmsSent
                 /\ body'.emailSent => e.deliveredEmailSent
                 /\ d.deliveredSmsSent /\ d.deliveredEmailSent
                       => /\ deliveries' = deliveries
                          /\ body'.alreadySent ]_vars

(* C34, the case reached: a request answered "already sent" for a delivery
   whose two channels went out earlier *)
DeliveredAlreadySent ==
    /\ body.kind = "delivered"
    /\ body.alreadySent
    /\ \E i \in 1..Len(deliveries) :
          deliveries[i].deliveredSmsSent /\ deliveries[i].deliveredEmailSent

(* C35: in every reachable state, a delivery whose status is SCHEDULED has a
   non-null truckId: no sequence of create, assign, unassign (truckId set to
   null) and status-change requests leaves a delivery SCHEDULED without a
   truck. *)
ScheduledHasTruck ==
    \A i \in 1..Len(deliveries) :
        deliveries[i].status = "SCHEDULED" => deliveries[i].truckId # Null

(* C36: an update request that supplies only a time window, hour or stop
   order (no truckId, no status) leaves the delivery's status,
   statusHistory, assignment fields and transition timestamps unchanged and
   changes no other delivery. *)
TimeWindowUpdateChangesOnlyTheWindow ==
    [][ \A id \in DeliveryIds, timeWindow \in TimeWindows \cup {Null, Absent} :
          UpdateDelivery(id, Absent, timeWindow, Absent, FALSE)
          => /\ deliveries' =
                   [deliveries EXCEPT ![id].timeWindow =
                       IF timeWindow # Absent THEN timeWindow ELSE @]
             /\ inventory' = inventory
             /\ response' = 200 ]_vars

(* C36, the case reached: a SCHEDULED delivery on a truck whose time window
   was set by a later update, its history still the one entry of creation *)
WindowSetOnScheduledDelivery ==
    \E i \in 1..Len(deliveries) :
        /\ deliveries[i].status = "SCHEDULED"
        /\ deliveries[i].truckId \in TruckIds
        /\ deliveries[i].statusHistory = <<"SCHEDULED">>
        /\ deliveries[i].timeWindow = "10-12"
        /\ response = 200

---------------------------------------------------------------------------
(* Properties of two dispatchers at once *)

(* two setTruck requests, both answered, that named two different deliveries
   of one date and the same truck and time window *)
RacedForSlot(r1, r2) ==
    /\ r1 # r2
    /\ inflight[r1].pc = "done" /\ inflight[r2].pc = "done"
    /\ inflight[r1].id # inflight[r2].id
    /\ inflight[r1].truckId = inflight[r2].truckId
    /\ inflight[r1].timeWindow = inflight[r2].timeWindow
    /\ deliveries[inflight[r1].id].deliveryDate = deliveries[inflight[r2].id].deliveryDate

(* C25: the check and the write of setTruck are not one atomic step: with two
   concurrent setTruck requests assigning two different deliveries to the
   same free (truck, date, slot), there is an interleaving in which both
   get past the conflict check and both writes are applied, leaving two
   non-cancelled deliveries booked in the same slot.  The handler takes no
   look at the slot at all, so this is the outcome of every interleaving. *)
ConcurrentSetTrucksBothApplied ==
    \A r1 \in Requests, r2 \in Requests :
        RacedForSlot(r1, r2)
        => \A r \in {r1, r2} :
              LET d == deliveries[inflight[r].id]
              IN  /\ d.truckId = inflight[r].truckId
                  /\ d.timeWindow = inflight[r].timeWindow
                  /\ d.status = "SCHEDULED"

(* C25, the case reached: both requests answered, and the two deliveries
   booked on the same truck, date and time window *)
SlotBookedTwiceByRace ==
    \E r1 \in Requests, r2 \in Requests :
        /\ RacedForSlot(r1, r2)
        /\ LET a == deliveries[inflight[r1].id]
               b == deliveries[inflight[r2].id]
           IN  /\ a.truckId = b.truckId /\ a.truckId \in TruckIds
               /\ a.timeWindow = b.timeWindow /\ a.timeWindow \in TimeWindows
               /\ a.status # "CANCELLED" /\ b.status # "CANCELLED"

---------------------------------------------------------------------------
(* Properties of the roster next to the board *)

(* C30: no Fleet Registry operation (registerTruck, updateTruck,
   deactivateTruck) modifies any Delivery record: each delivery's truckId,
   truckNumber, driver fields and status are the same after the operation
   as before it. *)
FleetRequestsLeaveDeliveries ==
    [][ FleetRequest => deliveries' = deliveries ]_vars

(* C30, the case reached: a delivery still SCHEDULED on a truck that has
   been deactivated since *)
DeliveryOnDeactivatedTruck ==
    \E n \in 1..Len(trucks), i \in 1..Len(deliveries) :
        /\ trucks[n].active = FALSE
        /\ deliveries[i].truckId = TruckIdOf(n)
        /\ deliveries[i].status = "SCHEDULED"

(* C31: deactivateTruck is a soft, idempotent deactivation: it sets
   active=false on the named truck, never removes a truck record and leaves
   every other truck unchanged, and a second deactivateTruck of the same
   truck succeeds and leaves the registry in the same state as the first. *)
DeactivateTruckIsSoftAndIdempotent ==
    [][ \A id \in 1..Len(trucks) :
          DeactivateTruck(id)
          => /\ Len(trucks') = Len(trucks)
             /\ \A n \in 1..Len(trucks) :
                   trucks'[n] = IF n = id
                                THEN [trucks[n] EXCEPT !.active = FALSE]
                                ELSE trucks[n]
             /\ response' = 200
             /\ trucks[id].active = FALSE => trucks' = trucks ]_vars

(* C31, the case reached: a truck deactivated, still on the roster next to
   one that stayed active *)
DeactivatedTruckStillOnRoster ==
    /\ response = 200
    /\ \E n \in 1..Len(trucks), m \in 1..Len(trucks) :
          trucks[n].active = FALSE /\ trucks[m].active = TRUE

---------------------------------------------------------------------------
(* Properties of the list query *)

(* a query whose date filter has one of the two forms the interface offers:
   a date, or a range with both its ends, or none *)
OneDateFilter(p) ==
    \/ p.date = None /\ p.startDate = None /\ p.endDate = None
    \/ p.date # None /\ p.startDate = None /\ p.endDate = None
    \/ p.date = None /\ p.startDate # None /\ p.endDate # None

(* delivery d satisfies every filter that query p supplies *)
Satisfies(d, p) ==
    /\ p.date # None => d.deliveryDate = Get(p.date)
    /\ p.startDate # None
          => StrLeq(Get(p.startDate), d.deliveryDate) /\ StrLeq(d.deliveryDate, Get(p.endDate))
    /\ p.status # None
          => d.status \in {Get(p.status)[k] : k \in 1..Len(Get(p.status))}
    /\ p.truckId # None => d.truckId = Get(p.truckId)
    /\ p.driverId # None => d.driverId = Get(p.driverId)
    /\ p.source # None => d.source = Get(p.source)

(* C33: findDeliveries returns exactly the deliveries that satisfy every
   supplied filter (date or date range, status, truckId, driverId, source)
   at once, a multi-valued status filter matching a delivery whose status
   is any one of the listed values, and no filter at all returning every
   delivery. *)
FindReturnsExactlyTheMatches ==
    [][ \A p \in DeliveryQueries :
          OneDateFilter(p) /\ FindDeliveries(p)
          => LET found == {body'.deliveries[k] : k \in 1..Len(body'.deliveries)}
             IN  /\ found = {i \in 1..Len(deliveries) : Satisfies(deliveries[i], p)}
                 /\ Len(body'.deliveries) = Cardinality(found)
                 /\ p = NoFilter => found = 1..Len(deliveries) ]_vars

(* C33, the case reached: a list that holds the EN_ROUTE delivery of the
   board and leaves its SCHEDULED one out, so a filter was at work *)
ListFilteredByStatus ==
    /\ body.kind = "deliveries"
    /\ body.count = 1
    /\ Len(deliveries) = 2
    /\ deliveries[body.deliveries[1]].status = "EN_ROUTE"
    /\ \E i \in 1..Len(deliveries) : deliveries[i].status = "SCHEDULED"

(* C37: with two concurrent delivered-notification requests for the same
   delivery, in every interleaving the customer SMS is sent at most once and
   the customer email is sent at most once. *)
ConcurrentDeliveredSendsOnce ==
    \A r1 \in Requests, r2 \in Requests :
        /\ r1 # r2
        /\ inflight[r1].pc \in {"updateOne", "done"}
        /\ inflight[r2].pc \in {"updateOne", "done"}
        /\ inflight[r1].id = inflight[r2].id
        => /\ ~ (inflight[r1].smsSent /\ inflight[r2].smsSent)
           /\ ~ (inflight[r1].emailSent /\ inflight[r2].emailSent)

(* C38: with two concurrent registerTruck requests carrying the same truck
   number and no active truck of that number beforehand, in every
   interleaving at most one request succeeds and at most one active truck
   with that number exists afterwards. *)
ConcurrentRegisterOneWins ==
    \A r1 \in Requests, r2 \in Requests :
        /\ r1 # r2
        /\ inflight[r1].pc = "done"
        /\ inflight[r2].pc = "done"
        /\ inflight[r1].truckNumber = inflight[r2].truckNumber
        => /\ ~ (inflight[r1].statusCode = 201 /\ inflight[r2].statusCode = 201)
           /\ Cardinality({i \in 1..Len(trucks) :
                    /\ trucks[i].active
                    /\ trucks[i].truckNumber = Trim(inflight[r1].truckNumber)}) <= 1

RECURSIVE LoadTons(_)
LoadTons(loads) ==
    IF loads = << >> THEN 0 ELSE Head(loads).quantity + LoadTons(Tail(loads))

(* C39: for positive totalTons and truckCapacity, calculateLoads returns
   totalLoads = ceil(totalTons / truckCapacity) loads numbered 1..totalLoads,
   each load's quantity is > 0 and <= truckCapacity, every load except the
   last equals truckCapacity, and the quantities sum to totalTons. *)
CalculateLoadsSplitsTheOrder ==
    inflight["first"].pc = "done" /\ response = 200
    => LET totalTons == inflight["first"].totalTons
           truckCapacity == inflight["first"].truckCapacity
       IN  /\ body.totalLoads = CeilDiv(totalTons, truckCapacity)
           /\ Len(body.loads) = body.totalLoads
           /\ \A i \in 1..Len(body.loads) :
                 /\ body.loads[i].loadNumber = i
                 /\ body.loads[i].quantity > 0
                 /\ body.loads[i].quantity <= truckCapacity
                 /\ i < Len(body.loads) => body.loads[i].quantity = truckCapacity
           /\ LoadTons(body.loads) = totalTons

===========================================================================
